---- MODULE Spec2Model ----
(***************************************************************************)
(* Model of the WordClipboard2Latex backend: the renderer/orchestrator     *)
(* (converter.py), the Math Bridge (omml_to_latex.py) and the math-output  *)
(* postprocessor (postprocess.py).                                         *)
(*                                                                         *)
(* Strings are sequences of atoms.  An atom is one character ("a", "{",    *)
(* "\\", "\n", " "), or one literal of a source template that holds no     *)
(* whitespace and is emitted after all character-level passes have run     *)
(* ("\\begin{aligned}", "<td>").  Whitespace is always a one-character     *)
(* atom, so strip(), split and the \s regex class act exactly as in the    *)
(* source.  A warning message is one atom: no string operation of the      *)
(* source looks inside it.                                                 *)
(***************************************************************************)
EXTENDS Integers, Sequences, FiniteSets, TLC

VARIABLES
    \* ---- postprocess.py applied to a drawn string
    latex,      \* the string handed to a postprocessor pass
    npieces,    \* number of pieces the input was assembled from
    out1,       \* pass(latex)
    out2,       \* pass(pass(latex))
    ppc,        \* "build" | "applied"
    \* ---- omml_to_latex.py: one call of the Math Bridge
    omml_xml,   \* the fragment handed to omml_to_latex
    run,        \* what the pandoc subprocess did
    ret,        \* what omml_to_latex returned or raised
    bpc,        \* "build" | "called"
    \* ---- converter.py: one convert_html request
    nodes,      \* the node tree the parser extracted
    pandoc_installed,   \* is the pandoc binary on PATH
    runs,       \* what the pandoc subprocess did, per math node so far
    result,     \* the record convert_html returned, or the failure
    pc,         \* "parse" | "done" ("idle" under the other specifications)
    \* ---- parser.py: the walk over one parsed document
    soup,       \* the body BeautifulSoup built from the cleaned markup
    display_blocks, \* id -> fragment, for the display placeholders
    inline_blocks,  \* id -> fragment, for the inline placeholders
    parsed,     \* the node list parse_clipboard_html returned
    prc,        \* "build" | "parsed"
    \* ---- parser.py: fragment isolation
    markup,     \* the markup handed to _extract_omml_blocks
    mpieces,    \* number of pieces the markup was assembled from
    isolated,   \* what _extract_omml_blocks returned
    ipc,        \* "build" | "isolated"
    \* ---- to_clipboard.py: one call of _make_cf_html
    fragment,   \* the HTML fragment, as runs of code points
    fruns,      \* number of runs the fragment was assembled from
    blob,       \* the bytes _make_cf_html returned, as runs of bytes
    fpc,        \* "build" | "made"
    \* ---- clipboard.py, to_clipboard.py: one operation on the clipboard
    caller,     \* the operation that opens the clipboard
    held_by,    \* who has the clipboard open: "nobody" | "other" | "us"
    available,  \* is the HTML format on the clipboard
    attempts,   \* calls of win32clipboard.OpenClipboard made so far
    outcome,    \* what the operation returned or raised
    cpc,   \* "open" | "sleep" | "use" | "done"
    \* ---- ocr_service.py: the lazily loaded local OCR models
    _got_model,         \* the module global: 0 for None, or the model object
    _got_tokenizer,     \* the module global: 0 for None, or the tokenizer object
    _texify_model,      \* the module global: 0 for None, or the model object
    _texify_processor,  \* the module global: 0 for None, or the processor object
    created,            \* backend -> number of model objects created so far
    worker,             \* thread -> its request, its position in the loader, its locals
    \* ---- omml_to_latex.py: the temporary files of the Math Bridge
    tmp_files,          \* the temporary .docx files that exist on disk
    \* ---- html_to_latex.py: one call of _escape_latex
    plain,              \* the plain text handed to _escape_latex
    escaped,            \* what _escape_latex returned
    epc,                \* "build" | "escaped"
    \* ---- main.py: one streaming OCR request
    queue,              \* the Queue between the worker thread and the event generator
    wpc,                \* the worker thread: "start" | "ocr" | "finally" | "done"
    produced,           \* number of log entries the worker has put
    events,             \* the events the generator has yielded
    gpc,                \* the event generator: "get" | "done"
    \* ---- history.py: the history table
    history,            \* the ids of the rows of the history table
    added,              \* the tab of every entry ever added; the entry's id is its position
    removed,            \* the ids removed by delete_entry and clear_tab
    removals,           \* number of delete_entry and clear_tab calls made
    hpc                 \* the last call: "init" | "add" | "delete" | "clear"

ppVars == <<latex, npieces, out1, out2, ppc>>
brVars == <<omml_xml, run, ret, bpc>>
cvVars == <<nodes, pandoc_installed, runs, result, pc>>
psVars == <<soup, display_blocks, inline_blocks, parsed, prc>>
isVars == <<markup, mpieces, isolated, ipc>>
cfVars == <<fragment, fruns, blob, fpc>>
cbVars == <<caller, held_by, available, attempts, outcome, cpc>>
ocVars == <<_got_model, _got_tokenizer, _texify_model, _texify_processor, created, worker>>
tmVars == <<tmp_files>>
esVars == <<plain, escaped, epc>>
seVars == <<queue, wpc, produced, events, gpc>>
hsVars == <<history, added, removed, removals, hpc>>
svcVars == <<ocVars, tmVars, esVars, seVars, hsVars>>
coreVars == <<ppVars, brVars, cvVars, psVars, isVars, cfVars, cbVars>>
laterVars == <<psVars, isVars, cfVars, cbVars, svcVars>>
exceptPs == <<ppVars, brVars, cvVars, isVars, cfVars, cbVars, svcVars>>
exceptIs == <<ppVars, brVars, cvVars, psVars, cfVars, cbVars, svcVars>>
exceptCf == <<ppVars, brVars, cvVars, psVars, isVars, cbVars, svcVars>>
exceptCb == <<ppVars, brVars, cvVars, psVars, isVars, cfVars, svcVars>>
svcExceptOc == <<tmVars, esVars, seVars, hsVars>>
exceptOc == <<coreVars, svcExceptOc>>
svcExceptTm == <<ocVars, esVars, seVars, hsVars>>
exceptTm == <<coreVars, svcExceptTm>>
svcExceptEs == <<ocVars, tmVars, seVars, hsVars>>
exceptEs == <<coreVars, svcExceptEs>>
svcExceptSe == <<ocVars, tmVars, esVars, hsVars>>
exceptSe == <<coreVars, svcExceptSe>>
svcExceptHs == <<ocVars, tmVars, esVars, seVars>>
exceptHs == <<coreVars, svcExceptHs>>
vars == <<latex, npieces, out1, out2, ppc, omml_xml, run, ret, bpc,
          nodes, pandoc_installed, runs, result, pc, laterVars>>

(***************************************************************************)
(* Loops.  A Python for loop, or the left-to-right scan of a library       *)
(* routine, is a fold: the loop state after the body has run for the items *)
(* a, a + 1, ..., b in this order.  The range is halved so that long       *)
(* inputs do not need deep evaluation; the order of the steps is kept.     *)
(***************************************************************************)
RECURSIVE Step(_, _, _)
RECURSIVE Fold(_, _, _, _)

\* The state st before the range is computed first, then the range is run.
Fold(loop, a, b, st) ==
    IF st = st
    THEN IF a < b
         THEN Fold(loop, ((a + b) \div 2) + 1, b, Fold(loop, a, (a + b) \div 2, st))
         ELSE IF a = b THEN Step(loop, st, a) ELSE st
    ELSE st

\* the elements of a set of numbers, in increasing order
Sorted(S) ==
    [k \in 1..Cardinality(S) |->
        CHOOSE j \in S : Cardinality({x \in S : x < j}) = k - 1]

\* the least / greatest element of a set of numbers, or d when it is empty
LeastOr(S, d) == IF S = {} THEN d ELSE CHOOSE p \in S : \A q \in S : p <= q
GreatestOr(S, d) == IF S = {} THEN d ELSE CHOOSE p \in S : \A q \in S : p >= q

(***************************************************************************)
(* Python str helpers                                                      *)
(***************************************************************************)
Whitespace == {" ", "\n", "\t"}

IsSpace(c) == c \in Whitespace

\* str.lstrip()
LStrip(s) ==
    SubSeq(s, LeastOr({j \in 1..Len(s) : ~IsSpace(s[j])}, Len(s) + 1), Len(s))

\* str.rstrip()
RStrip(s) == SubSeq(s, 1, GreatestOr({j \in 1..Len(s) : ~IsSpace(s[j])}, 0))

\* str.strip()
Strip(s) == RStrip(LStrip(s))

\* c in s
Contains(s, c) == \E i \in 1..Len(s) : s[i] = c

\* sep.join(parts)
RECURSIVE JoinFromTo(_, _, _, _)
JoinFromTo(parts, sep, a, b) ==
    IF a > b THEN <<>>
    ELSE IF a = b THEN parts[a]
    ELSE JoinFromTo(parts, sep, a, (a + b) \div 2) \o sep
         \o JoinFromTo(parts, sep, ((a + b) \div 2) + 1, b)

Join(parts, sep) == JoinFromTo(parts, sep, 1, Len(parts))

\* s[a:b] with Python's 0-based half-open indices, clamped
Slice(s, a, b) == SubSeq(s, a + 1, b)

\* str.splitlines(): the texts between line breaks, no empty last line
LineBreaks(s) == Sorted({j \in 1..Len(s) : s[j] = "\n"})

\* line k starts after break k - 1 and ends before break k, or at the end
LineOf(s, breaks, k) ==
    SubSeq(s, IF k = 1 THEN 1 ELSE breaks[k - 1] + 1,
              IF k <= Len(breaks) THEN breaks[k] - 1 ELSE Len(s))

LinesAt(s, breaks) ==
    [k \in 1..(IF Len(breaks) = 0 THEN (IF s = <<>> THEN 0 ELSE 1)
               ELSE IF breaks[Len(breaks)] = Len(s) THEN Len(breaks)
               ELSE Len(breaks) + 1)
        |-> LineOf(s, breaks, k)]

SplitLines(s) == LinesAt(s, LineBreaks(s))

(***************************************************************************)
(* Python re: the regular expressions of the source, as data.  A pattern   *)
(* is a sequence of elements; an element consumes one given character, one *)
(* character of a class, a greedy run of a class, a lazy run of any        *)
(* characters, or is a zero-width look-around.  Every greedy run in the    *)
(* source's patterns is followed by an element that no character of the    *)
(* run's class can start, so a run never has to give characters back.      *)
(***************************************************************************)
Lower == {"a", "b", "c", "d", "e", "f", "g", "h", "i", "j", "k", "l", "m", "n", "o", "p", "q", "r", "s", "t", "u", "v", "w", "x", "y", "z"}
Upper == {"A", "B", "C", "D", "E", "F", "G", "H", "I", "J", "K", "L", "M", "N", "O", "P", "Q", "R", "S", "T", "U", "V", "W", "X", "Y", "Z"}
Digit == {"0", "1", "2", "3", "4", "5", "6", "7", "8", "9"}

\* a character class: the characters in set, or (neg) all the others
ClassOf(S) == [neg |-> FALSE, set |-> S]
ClassNot(S) == [neg |-> TRUE, set |-> S]
InClass(c, cls) == (c \in cls.set) # cls.neg

ReSpace == ClassOf(Whitespace)                       \* \s
ReWord == ClassOf(Lower \cup Upper \cup Digit \cup {"_"})   \* \w
ReDigit == ClassOf(Digit)                            \* \d
ReLetter == ClassOf(Lower \cup Upper)                \* [a-zA-Z]
ReAny == ClassNot({})                                \* . under DOTALL

L(c) == [k |-> "lit", c |-> <<c>>, cls |-> ReAny]        \* the character c
Lit(chars) == [k |-> "lit", c |-> chars, cls |-> ReAny]  \* a literal string
One(cls) == [k |-> "one", c |-> <<>>, cls |-> cls]         \* one of a class
Star(cls) == [k |-> "star", c |-> <<>>, cls |-> cls]       \* cls*
Plus(cls) == [k |-> "plus", c |-> <<>>, cls |-> cls]       \* cls+
Lazy == [k |-> "lazy", c |-> <<>>, cls |-> ReAny]          \* .*?
NotAhead(cls) == [k |-> "na", c |-> <<>>, cls |-> cls]     \* (?!cls)
NotBehind(cls) == [k |-> "nb", c |-> <<>>, cls |-> cls]    \* (?<!cls)

\* a replacement template: literal text, or the text an element matched
Txt(chars) == [g |-> 0, s |-> chars]
Grp(k) == [g |-> k, s |-> <<>>]

NoMatch == [ok |-> FALSE, next |-> 0, caps |-> <<>>]

\* element k matched s[i..j-1]
Matched(i, j, caps) == [ok |-> TRUE, next |-> j, caps |-> Append(caps, <<i, j>>)]

MatchLoop(s, pat) == [kind |-> "match", s |-> s, pat |-> pat]

\* the end of the run of class characters of s that starts at position i
RunEnd(s, i, cls) ==
    LeastOr({j \in i..Len(s) : ~InClass(s[j], cls)}, Len(s) + 1)

\* a lazy run ends at the first position from which the rest matches
LazyEnds(s, i, pat, k) ==
    {j \in i..(Len(s) + 1) :
         Fold(MatchLoop(s, pat), k + 1, Len(pat),
              [ok |-> TRUE, next |-> j, caps |-> <<>>]).ok}

\* element e = pat[k] against s from position i (1-based); caps[k] is the
\* span <<from, to>> (to exclusive) that element k matched
MatchElem(s, pat, e, i, k, caps) ==
    CASE e.k = "lit" ->
           IF i + Len(e.c) <= Len(s) + 1 /\ SubSeq(s, i, i + Len(e.c) - 1) = e.c
           THEN Matched(i, i + Len(e.c), caps)
           ELSE NoMatch
      [] e.k = "one" ->
           IF i <= Len(s) /\ InClass(s[i], e.cls)
           THEN Matched(i, i + 1, caps)
           ELSE NoMatch
      [] e.k = "star" -> Matched(i, RunEnd(s, i, e.cls), caps)
      [] e.k = "plus" ->
           IF i <= Len(s) /\ InClass(s[i], e.cls)
           THEN Matched(i, RunEnd(s, i, e.cls), caps)
           ELSE NoMatch
      [] e.k = "na" ->
           IF i <= Len(s) /\ InClass(s[i], e.cls)
           THEN NoMatch
           ELSE Matched(i, i, caps)
      [] e.k = "nb" ->
           IF i > 1 /\ InClass(s[i - 1], e.cls)
           THEN NoMatch
           ELSE Matched(i, i, caps)
      [] e.k = "lazy" ->
           IF LazyEnds(s, i, pat, k) = {} THEN NoMatch
           ELSE Matched(i, LeastOr(LazyEnds(s, i, pat, k), 0), caps)

MatchStep(s, pat, st, k) ==
    IF st.ok THEN MatchElem(s, pat, pat[k], st.next, k, st.caps) ELSE st

\* the match of pat that starts at position i of s
MatchAt(s, i, pat) ==
    Fold(MatchLoop(s, pat), 1, Len(pat), [ok |-> TRUE, next |-> i, caps |-> <<>>])

\* the replacement text of one match
ExpandStep(tmpl, s, caps, acc, j) ==
    acc \o (IF tmpl[j].g = 0 THEN tmpl[j].s
            ELSE SubSeq(s, caps[tmpl[j].g][1], caps[tmpl[j].g][2] - 1))

Expand(tmpl, s, caps) ==
    Fold([kind |-> "expand", tmpl |-> tmpl, s |-> s, caps |-> caps],
         1, Len(tmpl), <<>>)

\* 1-based start of the leftmost match of pat at or after position i, or 0
IsHit(m, j) == m.ok /\ m.next > j

NextMatch(s, i, pat) ==
    LeastOr({j \in i..Len(s) : IsHit(MatchAt(s, j, pat), j)}, 0)

\* every position of s where pat matches, with the match found there
HitSet(s, pat) ==
    {h \in {[at |-> j, m |-> MatchAt(s, j, pat)] : j \in 1..Len(s)} :
         IsHit(h.m, h.at)}

\* the same, from left to right
HitsInOrder(H) ==
    [k \in 1..Cardinality(H) |->
        CHOOSE h \in H : Cardinality({x \in H : x.at < h.at}) = k - 1]

\* re.sub(pat, tmpl, s): leftmost non-overlapping matches, left to right;
\* pos is where the text not yet copied starts, so a match that starts
\* before pos overlaps the one taken before it
SubStep(s, tmpl, st, h) ==
    IF h.at < st.pos THEN st
    ELSE [pos |-> h.m.next,
          out |-> st.out \o SubSeq(s, st.pos, h.at - 1) \o Expand(tmpl, s, h.m.caps)]

SubTail(s, st) == st.out \o SubSeq(s, st.pos, Len(s))

SubHits(tmpl, s, H) ==
    IF H = {} THEN s
    ELSE SubTail(s, Fold([kind |-> "sub", s |-> s, tmpl |-> tmpl,
                          hits |-> HitsInOrder(H)],
                         1, Cardinality(H), [pos |-> 1, out |-> <<>>]))

ReSub(pat, tmpl, s) == SubHits(tmpl, s, HitSet(s, pat))

\* one `latex = re.sub(pat, repl, latex)` statement
Sub(pat, tmpl) == [pat |-> pat, tmpl |-> tmpl]

\* a run of such statements
Subs(list, s) == Fold([kind |-> "subs", subs |-> list], 1, Len(list), s)

\* re.search(pat, s)
ReSearch(pat, s) == NextMatch(s, 1, pat) # 0

\* re.split(pat, s): the texts between the matches
SplitStep(s, st, h) ==
    IF h.at < st.pos THEN st
    ELSE [pos |-> h.m.next, parts |-> Append(st.parts, SubSeq(s, st.pos, h.at - 1))]

SplitTail(s, st) == Append(st.parts, SubSeq(s, st.pos, Len(s)))

SplitHits(s, H) ==
    IF H = {} THEN <<s>>
    ELSE SplitTail(s, Fold([kind |-> "split", s |-> s, hits |-> HitsInOrder(H)],
                           1, Cardinality(H), [pos |-> 1, parts |-> <<>>]))

ReSplit(pat, s) == SplitHits(s, HitSet(s, pat))

(***************************************************************************)
(* postprocess.py: _unwrap_multiline_groups                                *)
(***************************************************************************)
\* ' \\\\\n': space, backslash, backslash, newline
RowSep == <<" ", "\\", "\\", "\n">>

\* `start = -1`
NoStart == 0 - 1

\* lines 48-58: the body of the scan for top-level brace groups.  i is the
\* 0-based index of the character ch; a group is (start, end, content).
ScanStep(s, st, i, ch) ==
    IF ch = "{" /\ st.depth = 0
    THEN [depth |-> 1, start |-> i, groups |-> st.groups]
    ELSE IF ch = "{"
    THEN [depth |-> st.depth + 1, start |-> st.start, groups |-> st.groups]
    ELSE IF ch = "}" /\ st.depth > 0
    THEN IF st.depth - 1 = 0 /\ st.start >= 0
         THEN [depth |-> 0, start |-> NoStart,
               groups |-> Append(st.groups,
                                 [start |-> st.start, end |-> i,
                                  content |-> Slice(s, st.start + 1, i)])]
         ELSE [depth |-> st.depth - 1, start |-> st.start, groups |-> st.groups]
    ELSE st

\* the 0-based indices of the braces of s: the other characters leave the
\* state of the scan as it is
Braces(s) == Sorted({i \in 0..(Len(s) - 1) : s[i + 1] = "{" \/ s[i + 1] = "}"})

ScanBraces(s, braces) ==
    Fold([kind |-> "scan", s |-> s, at |-> braces], 1, Len(braces),
         [depth |-> 0, start |-> NoStart, groups |-> <<>>]).groups

\* lines 44-58
TopGroups(s) == ScanBraces(s, Braces(s))

\* mutant: the check of the text between consecutive groups is forgotten
IsConsecutive_skipped(s, groups) == TRUE

\* lines 64-69
IsConsecutive(s, groups) ==
    \A j \in 1..(Len(groups) - 1) :
        Strip(Slice(s, groups[j].end + 1, groups[j + 1].start)) = <<>>

\* `len(c) > 5`
SubstantialLen == 5

\* mutant: rows joined by a bare line break
UnwrapJoinSep_newline == <<"\n">>

\* line 102
UnwrapJoinSep == RowSep

\* lines 60-102, given the groups found by the scan
UnwrapGroups(s, groups, n) ==
    IF n < 2 THEN s
    ELSE IF ~IsConsecutive(s, groups) THEN s
    ELSE IF Strip(Slice(s, 0, groups[1].start)) # <<>>
            \/ Strip(Slice(s, groups[n].end + 1, Len(s))) # <<>> THEN s
    ELSE LET newline_groups ==
                 Cardinality({j \in 1..n : Contains(groups[j].content, "\n")})
             lines == [j \in 1..n |-> Strip(groups[j].content)]
         IN  IF newline_groups >= 1 THEN Join(lines, UnwrapJoinSep)
             ELSE IF n >= 3 THEN Join(lines, UnwrapJoinSep)
             ELSE IF \A j \in 1..n : Len(lines[j]) > SubstantialLen
                  THEN Join(lines, UnwrapJoinSep)
                  ELSE s

_unwrap_multiline_groups(s) == UnwrapGroups(s, TopGroups(s), Len(TopGroups(s)))

(***************************************************************************)
(* postprocess.py: the remaining passes                                    *)
(***************************************************************************)
BeginArray == <<"\\", "b", "e", "g", "i", "n", "{", "a", "r", "r", "a", "y", "}">>
EndArray == <<"\\", "e", "n", "d", "{", "a", "r", "r", "a", "y", "}">>
BeginAligned == <<"\\", "b", "e", "g", "i", "n", "{", "a", "l", "i", "g", "n", "e", "d", "}">>
EndAligned == <<"\\", "e", "n", "d", "{", "a", "l", "i", "g", "n", "e", "d", "}">>
MathbfOpen == <<"\\", "m", "a", "t", "h", "b", "f">>
LogCmd == <<"\\", "l", "o", "g">>
TextOpen == <<"\\", "t", "e", "x", "t">>
LeftCmd == <<"\\", "l", "e", "f", "t">>
RightCmd == <<"\\", "r", "i", "g", "h", "t">>

\* r'\\begin\{array\}\{[^}]*\}\s*(.*?)\s*\\end\{array\}' -> r'\1'
ArrayRe ==
    <<Lit(BeginArray), L("{"), Star(ClassNot({"}"})), L("}"), Star(ReSpace), Lazy,
      Star(ReSpace), Lit(EndArray)>>

\* the element of ArrayRe that is group 1
ArrayGroup == 6

_unwrap_array_in_aligned(s) == ReSub(ArrayRe, <<Grp(ArrayGroup)>>, s)

\* r'\\begin\{aligned\}\s*\\begin\{aligned\}'
NestedBeginRe == <<Lit(BeginAligned), Star(ReSpace), Lit(BeginAligned)>>

\* r'\\end\{aligned\}\s*\\end\{aligned\}'
NestedEndRe == <<Lit(EndAligned), Star(ReSpace), Lit(EndAligned)>>

\* lines 136-141: one round of the while loop
NestedSubs ==
    << Sub(NestedBeginRe, <<Txt(BeginAligned)>>),
       Sub(NestedEndRe, <<Txt(EndAligned)>>) >>

RECURSIVE _collapse_nested_aligned(_)
_collapse_nested_aligned(s) ==
    IF ReSearch(NestedBeginRe, s)
    THEN _collapse_nested_aligned(Subs(NestedSubs, s))
    ELSE s

\* a named relation command: r'\\name(?![a-zA-Z])'
Cmd(chars) == <<Lit(chars), NotAhead(ReLetter)>>

_RELATION_OPS ==
    << Cmd(<<"\\", "a", "p", "p", "r", "o", "x">>),
       Cmd(<<"\\", "s", "i", "m", "e", "q">>),
       Cmd(<<"\\", "c", "o", "n", "g">>),
       Cmd(<<"\\", "e", "q", "u", "i", "v">>),
       Cmd(<<"\\", "s", "i", "m">>),
       Cmd(<<"\\", "p", "r", "o", "p", "t", "o">>),
       Cmd(<<"\\", "d", "o", "t", "e", "q">>),
       Cmd(<<"\\", "l", "e", "q">>),
       Cmd(<<"\\", "l", "e">>),
       Cmd(<<"\\", "g", "e", "q">>),
       Cmd(<<"\\", "g", "e">>),
       Cmd(<<"\\", "l", "l">>),
       Cmd(<<"\\", "g", "g">>),
       Cmd(<<"\\", "n", "e", "q">>),
       Cmd(<<"\\", "n", "e">>),
       Cmd(<<"\\", "t", "o">>),
       Cmd(<<"\\", "r", "i", "g", "h", "t", "a", "r", "r", "o", "w">>),
       Cmd(<<"\\", "l", "e", "f", "t", "a", "r", "r", "o", "w">>),
       Cmd(<<"\\", "R", "i", "g", "h", "t", "a", "r", "r", "o", "w">>),
       Cmd(<<"\\", "L", "e", "f", "t", "a", "r", "r", "o", "w">>),
       Cmd(<<"\\", "L", "e", "f", "t", "r", "i", "g", "h", "t", "a", "r", "r", "o", "w">>),
       Cmd(<<"\\", "i", "f", "f">>),
       <<L("=")>>,
       <<NotBehind(ClassOf({"\\"})), L("<"), NotAhead(ReLetter)>>,
       <<NotBehind(ClassOf({"\\"})), L(">"), NotAhead(ReLetter)>> >>

\* lines 202-209: brace depth of line[:pos], pos 0-based
DepthBefore(line, pos) ==
    Cardinality({j \in 1..pos : line[j] = "{"})
        - Cardinality({j \in 1..pos : line[j] = "}"})

\* lines 197-214: 0-based start of the first match of one operator that is
\* not inside braces, or len(line) + 1
FirstOutside(line, op) ==
    LET hits == {p \in 0..(Len(line) - 1) :
                     MatchAt(line, p + 1, op).ok /\ DepthBefore(line, p) <= 0}
    IN  IF hits = {} THEN Len(line) + 1
        ELSE CHOOSE p \in hits : \A q \in hits : p <= q

\* lines 216-220
InsertAt(line, best_pos) ==
    IF best_pos <= Len(line)
    THEN Slice(line, 0, best_pos) \o <<"&">> \o Slice(line, best_pos, Len(line))
    ELSE line

_insert_alignment(line) ==
    IF Contains(line, "&") THEN line
    ELSE InsertAt(line, LeastOr({FirstOutside(line, _RELATION_OPS[o]) :
                                     o \in 1..Len(_RELATION_OPS)}, 0))

\* r'\s*\\\\\s*'
RowSepRe == <<Star(ReSpace), L("\\"), L("\\"), Star(ReSpace)>>

\* lines 178-185, given the split lines
AlignLines(s, lines) ==
    IF Len(lines) < 2 THEN s
    ELSE Join([j \in 1..Len(lines) |-> _insert_alignment(lines[j])], RowSep)

_add_alignment_markers(s) ==
    IF ~ReSearch(<<L("\\"), L("\\")>>, s) THEN s
    ELSE AlignLines(s, ReSplit(RowSepRe, s))

\* r'\\mathbf\{(\w)\}' -> r'\1', then r'\\mathbf\{(\w+)\}' -> r'\1'
BoldSubs ==
    << Sub(<<Lit(MathbfOpen), L("{"), One(ReWord), L("}")>>, <<Grp(3)>>),
       Sub(<<Lit(MathbfOpen), L("{"), Plus(ReWord), L("}")>>, <<Grp(3)>>) >>

_fix_bold_math_vars(s) == Subs(BoldSubs, s)

\* r'(\\log)\\\s*_\{' -> r'\1_{', then r'(\\log)\\\s*_(\w)' -> r'\1_{\2}'
LogSubs ==
    << Sub(<<Lit(LogCmd), L("\\"), Star(ReSpace), L("_"), L("{")>>,
           <<Grp(1), Txt(<<"_", "{">>)>>),
       Sub(<<Lit(LogCmd), L("\\"), Star(ReSpace), L("_"), One(ReWord)>>,
           <<Grp(1), Txt(<<"_", "{">>), Grp(5), Txt(<<"}">>)>>) >>

_fix_log_subscript(s) == Subs(LogSubs, s)

\* lines 253-255: r' {2,}' -> ' ', then r'\s*\\\\\s*' -> ' \\\\\n'
WhitespaceSubs ==
    << Sub(<<L(" "), Plus(ClassOf({" "}))>>, <<Txt(<<" ">>)>>),
       Sub(RowSepRe, <<Txt(RowSep)>>) >>

\* line 257: '\n'.join(line.rstrip() for line in latex.splitlines())
RStripLines(lines) == Join([j \in 1..Len(lines) |-> RStrip(lines[j])], <<"\n">>)

RStripLinesOf(s) == IF s = <<>> THEN <<>> ELSE RStripLines(SplitLines(s))

\* lines 253-258
_fix_whitespace(s) == RStripLinesOf(Subs(WhitespaceSubs, s))

\* lines 280-292
QuirkSubs ==
    << Sub(<<Lit(TextOpen), L("{"), Star(ReSpace), L("}")>>, <<Txt(<<" ">>)>>),
       Sub(<<L("\\"), L("\\"), L("\\"), L("\\")>>, <<Txt(<<"\\", "\\">>)>>),
       Sub(<<L("{"), L("}")>>, <<>>),
       Sub(<<Lit(LeftCmd), Plus(ReSpace)>>, <<Txt(LeftCmd)>>),
       Sub(<<Lit(RightCmd), Plus(ReSpace)>>, <<Txt(RightCmd)>>) >>

_fix_common_pandoc_quirks(s) == Subs(QuirkSubs, s)

\* r'(\d)\s*(\\text\{)' -> r'\1\\,\2'
_fix_number_unit_spacing(s) ==
    ReSub(<<One(ReDigit), Star(ReSpace), Lit(TextOpen \o <<"{">>)>>,
          <<Grp(1), Txt(<<"\\", ",">>), Grp(3)>>, s)

\* lines 11-19: the passes, in the order they are applied
PassStep(s, j) ==
    CASE j = 1 -> _unwrap_multiline_groups(s)
      [] j = 2 -> _unwrap_array_in_aligned(s)
      [] j = 3 -> _collapse_nested_aligned(s)
      [] j = 4 -> _add_alignment_markers(s)
      [] j = 5 -> _fix_bold_math_vars(s)
      [] j = 6 -> _fix_log_subscript(s)
      [] j = 7 -> _fix_whitespace(s)
      [] j = 8 -> _fix_common_pandoc_quirks(s)
      [] j = 9 -> _fix_number_unit_spacing(s)
      [] j = 10 -> Strip(s)

\* the body of each loop
NumPasses == 10

\* lines 8-19
postprocess_latex(s) == Fold([kind |-> "pass"], 1, NumPasses, s)

(***************************************************************************)
(* Math Bridge (omml_to_latex.py).  The pandoc subprocess is the           *)
(* environment: a run is what subprocess.run did, [kind, returncode,       *)
(* stdout, stderr] with kind "exited" (the process ended by itself),       *)
(* "timeout" (TimeoutExpired after 10 s), "missing" (FileNotFoundError: no *)
(* pandoc on PATH) or "oserror" (any other OSError of the launch).         *)
(***************************************************************************)
StartsWith(s, p) == Len(p) <= Len(s) /\ SubSeq(s, 1, Len(p)) = p
EndsWith(s, p) == Len(p) <= Len(s) /\ SubSeq(s, Len(s) - Len(p) + 1, Len(s)) = p

\* re.sub(r'^p', '', s)
DropPrefix(s, p) == IF StartsWith(s, p) THEN SubSeq(s, Len(p) + 1, Len(s)) ELSE s

\* re.sub(r'p$', '', s): $ matches at the end and before a final line break
DropSuffix(s, p) ==
    IF EndsWith(s, p) THEN SubSeq(s, 1, Len(s) - Len(p))
    ELSE IF EndsWith(s, p \o <<"\n">>)
         THEN SubSeq(s, 1, Len(s) - Len(p) - 1) \o <<"\n">>
         ELSE s

\* latex[1:-1] when latex starts and ends with $
DropDollars(s) ==
    IF StartsWith(s, <<"$">>) /\ EndsWith(s, <<"$">>)
    THEN SubSeq(s, 2, Len(s) - 1)
    ELSE s

\* lines 187-198
_strip_math_delimiters(s) ==
    Strip(DropSuffix(DropPrefix(
        DropDollars(DropSuffix(DropPrefix(s, <<"\\", "[">>), <<"\\", "]">>)),
        <<"\\", "(">>), <<"\\", ")">>))

TagRe == <<L("<"), Plus(ClassNot({">"})), L(">")>>   \* <[^>]+>

_fallback_text_extract_keeps_tags(xml) == Strip(xml)

\* lines 201-204
_fallback_text_extract(xml) == Strip(ReSub(TagRe, <<>>, xml))

Returned(s) == [raised |-> "", value |-> s]
Raised(type, message) == [raised |-> type, value |-> message]

PandocMissing ==
    <<"Pandoc is not installed or not on PATH. Install it from https://pandoc.org/installing.html">>

\* lines 144-184; an exception that no except clause names leaves the
\* function as it is
omml_to_latex(xml, r) ==
    CASE r.kind = "missing" -> Raised("RuntimeError", PandocMissing)
      [] r.kind = "timeout" -> Returned(_fallback_text_extract(xml))
      [] r.kind = "oserror" -> Raised("OSError", r.stderr)
      [] r.kind = "exited" ->
           IF r.returncode # 0
           THEN Returned(_fallback_text_extract(xml))
           ELSE Returned(_strip_math_delimiters(Strip(r.stdout)))

Exited(code, stdout, stderr) ==
    [kind |-> "exited", returncode |-> code, stdout |-> stdout, stderr |-> stderr]
TimedOut == [kind |-> "timeout", returncode |-> 0, stdout |-> <<>>, stderr |-> <<>>]
Missing == [kind |-> "missing", returncode |-> 0, stdout |-> <<>>, stderr |-> <<>>]
LaunchError(message) ==
    [kind |-> "oserror", returncode |-> 0, stdout |-> <<>>, stderr |-> message]

\* what pandoc prints for a fragment it converts
Stdouts ==
    { <<"\\", "[", "x", "\\", "]", "\n">>,
      <<"$", "x", "$">>,
      <<"\\", "(", "x", "\\", ")", "\n">>,
      <<"\\", "[", "{", "a", "=", "b", "\n", "}", "{", "c", "}", "\\", "]", "\n">>,
      <<>> }

\* what pandoc prints when it fails
Stderrs == { <<"E">>, <<"E", "<", "m", ">">> }

PermissionDenied == <<"[Errno 13] Permission denied: 'pandoc'">>

BridgeRuns ==
    {Exited(0, o, <<>>) : o \in Stdouts}
        \cup {Exited(1, <<>>, e) : e \in Stderrs}
        \cup {Exited(1, o, <<"E">>) : o \in Stdouts}
        \cup {TimedOut, Missing, LaunchError(PermissionDenied)}

(***************************************************************************)
(* Text renderers (html_to_latex.py, html_to_markdown.py, html_to_html.py) *)
(* for the text and heading nodes of the drawn trees.  The html of a drawn *)
(* text node holds no markup, so BeautifulSoup with the lxml builder reads *)
(* it as a body of one <p> element with one string child.  List nodes      *)
(* reach no math conversion and are not drawn.                             *)
(***************************************************************************)
Sub1(c, lit) == Sub(<<L(c)>>, <<Txt(lit)>>)   \* text.replace(c, lit)

\* lines 128-139
LatexReplacements ==
    << Sub1("\\", <<"\\", "t", "e", "x", "t", "b", "a", "c", "k", "s", "l", "a", "s", "h", "{", "}">>),
       Sub1("&", <<"\\", "&">>),
       Sub1("%", <<"\\", "%">>),
       Sub1("$", <<"\\", "$">>),
       Sub1("#", <<"\\", "#">>),
       Sub1("_", <<"\\", "_">>),
       Sub1("{", <<"\\", "{">>),
       Sub1("}", <<"\\", "}">>),
       Sub1("~", <<"\\", "t", "e", "x", "t", "a", "s", "c", "i", "i", "t", "i", "l", "d", "e", "{", "}">>),
       Sub1("^", <<"\\", "t", "e", "x", "t", "a", "s", "c", "i", "i", "c", "i", "r", "c", "u", "m", "{", "}">>) >>

_escape_latex(text) == Subs(LatexReplacements, text)

HtmlReplacements ==
    << Sub1("&", <<"&", "a", "m", "p", ";">>),
       Sub1("<", <<"&", "l", "t", ";">>),
       Sub1(">", <<"&", "g", "t", ";">>),
       Sub1("\"", <<"&", "q", "u", "o", "t", ";">>) >>

_escape_html(text) == Subs(HtmlReplacements, text)

ParagraphBreak == <<"\n", "\n">>

\* html_to_latex.py lines 12-16, with _convert_element on <p> and its string
html_to_latex(html) == Strip(_escape_latex(html) \o ParagraphBreak)

\* html_to_markdown.py lines 12-16
html_to_markdown(html) == Strip(html \o ParagraphBreak)

\* html_to_html.py lines 12-22
clean_html(html) == Strip(<<"<p>">> \o html \o <<"</p>">>)

_heading_command(level) ==
    CASE level = 1 -> "section"
      [] level = 2 -> "subsection"
      [] level = 3 -> "subsubsection"
      [] level = 4 -> "paragraph"
      [] level = 5 -> "subparagraph"
      [] level = 6 -> "subparagraph"
      [] OTHER -> "section"

Repeat(n, s) == Join([j \in 1..n |-> s], <<>>)

Min(a, b) == IF a < b THEN a ELSE b

HeadingTag(level) ==
    CASE Min(level, 6) = 1 -> "h1"
      [] Min(level, 6) = 2 -> "h2"
      [] Min(level, 6) = 3 -> "h3"
      [] Min(level, 6) = 4 -> "h4"
      [] Min(level, 6) = 5 -> "h5"
      [] OTHER -> "h6"

\* the text and heading branches of node_to_latex (lines 19-52)
node_to_latex(node) ==
    IF node.type = "text"
    THEN IF node.html # <<>> THEN html_to_latex(node.html)
         ELSE _escape_latex(node.content)
    ELSE <<"\\", _heading_command(node.level), "{">>
             \o _escape_latex(node.content) \o <<"}">>

\* html_to_markdown.py lines 19-46
node_to_markdown(node) ==
    IF node.type = "text"
    THEN IF node.html # <<>> THEN html_to_markdown(node.html)
         ELSE node.content
    ELSE Repeat(node.level, <<"#">>) \o <<" ">> \o node.content

\* html_to_html.py lines 25-52
node_to_html(node) ==
    IF node.type = "text"
    THEN IF node.html # <<>> THEN clean_html(node.html)
         ELSE _escape_html(node.content)
    ELSE <<"<", HeadingTag(node.level), ">">>
             \o _escape_html(node.content)
             \o <<"</", HeadingTag(node.level), ">">>

(***************************************************************************)
(* Renderer (converter.py).  The lists that _convert_node appends to are   *)
(* the fields of a state st; st.calls counts the subprocess runs used so   *)
(* far, so that the next call of omml_to_latex gets the run rs[calls + 1]. *)
(***************************************************************************)
NoParts(st) ==
    [latex_parts |-> <<>>, md_parts |-> <<>>, html_parts |-> <<>>,
     warnings |-> st.warnings, calls |-> st.calls]

Emit(st, lat, md, htm) ==
    [st EXCEPT !.latex_parts = Append(@, lat),
               !.md_parts = Append(@, md),
               !.html_parts = Append(@, htm)]

NoOmml == <<"Math node has no OMML XML content.">>

ConversionError(message) == <<"Math conversion error: ">> \o message

Handled_leaks_message(b) ==
    [latex |-> IF b.raised = "" THEN postprocess_latex(b.value) ELSE b.value,
     warnings |-> IF b.raised = "" THEN <<>> ELSE <<b.value>>,
     calls |-> 1]

\* lines 124-133: the try block and its two except clauses
Handled(b) ==
    CASE b.raised = "" ->
           [latex |-> postprocess_latex(b.value), warnings |-> <<>>, calls |-> 1]
      [] b.raised = "RuntimeError" ->
           [latex |-> <<>>, warnings |-> <<b.value>>, calls |-> 1]
      [] OTHER ->
           [latex |-> <<>>, warnings |-> <<ConversionError(b.value)>>, calls |-> 1]

\* lines 119-133; r is the subprocess run this call gets
_convert_math(node, r) ==
    IF node.omml_xml = <<>>
    THEN [latex |-> <<>>, warnings |-> <<NoOmml>>, calls |-> 0]
    ELSE Handled(omml_to_latex(node.omml_xml, r))

\* the state after a call of _convert_math
WithMath(st, m) ==
    [st EXCEPT !.warnings = @ \o m.warnings, !.calls = @ + m.calls]

InlineLatex(m) == <<"$">> \o m \o <<"$">>

InlineHtml_without_math(m) ==
    <<"<span", " ", "class=\"math", " ", "inline\">", "\\(", "\\)", "</span>">>

\* lines 70, 151
InlineHtml(m) ==
    <<"<span", " ", "class=\"math", " ", "inline\">", "\\(">> \o m \o <<"\\)", "</span>">>

UsesAlignedBlock_aligned_only(node) == node.math_env = "aligned"

\* line 75
UsesAlignedBlock(node) == node.math_env \in {"aligned", "multiline"}

\* lines 75-80
DisplayBlock(node, open, m, close) ==
    IF UsesAlignedBlock(node)
    THEN <<open, "\n", "\\begin{aligned}", "\n">> \o m
             \o <<"\n", "\\end{aligned}", "\n", close>>
    ELSE <<open, "\n">> \o m \o <<"\n", close>>

DisplayHtml(m) ==
    <<"<div", " ", "class=\"math", " ", "display\">", "\\[">> \o m \o <<"\\]", "</div>">>

NonEmpty(p) == p # <<>>
NonBlank(p) == Strip(p) # <<>>

to_line_keeps_breaks(parts) == Strip(Join(SelectSeq(parts, NonBlank), <<" ">>))

\* lines 158-159
to_line(parts) ==
    Strip(ReSub(<<Plus(ReSpace)>>, <<Txt(<<" ">>)>>,
                Join(SelectSeq(parts, NonBlank), <<" ">>)))

NumCols(rows) == GreatestOr({Len(rows[i]) : i \in DOMAIN rows}, 0)

\* while len(row) < num_cols: row.append("")
Pad(row, n) == row \o [j \in 1..(n - Len(row)) |-> <<>>]

\* lines 190-198
TableLatex(rows, n) ==
    Join(<< <<"\\begin{tabular}", "{", "|">>
                \o Join([j \in 1..n |-> <<"l">>], <<"|">>) \o <<"|", "}">>,
            <<"\\hline">> >>
         \o Join([i \in 1..Len(rows) |->
                    << Join(Pad(rows[i], n), <<" ", "&", " ">>) \o <<" ", "\\", "\\">>,
                       <<"\\hline">> >>], <<>>)
         \o << <<"\\end{tabular}">> >>,
         <<"\n">>)

EscapePipes(c) == ReSub(<<L("|")>>, <<Txt(<<"\\", "|">>)>>, c)

MdLine(cells) ==
    <<"|", " ">> \o Join(cells, <<" ", "|", " ">>) \o <<" ", "|">>

\* lines 200-210
TableMarkdown(rows, n) ==
    Join(Join([i \in 1..Len(rows) |->
                 << MdLine([j \in 1..n |-> EscapePipes(Pad(rows[i], n)[j])]) >>
                     \o (IF i = 1
                         THEN << MdLine([j \in 1..n |-> <<"-", "-", "-">>]) >>
                         ELSE <<>>)], <<>>),
         <<"\n">>)

\* line 217: th in the first row, td in the others
CellTag(i) == IF i = 1 THEN <<"<th>", "</th>">> ELSE <<"<td>", "</td>">>

\* lines 215-220: the lines of one row of html_rows
HtmlRow(row, i) ==
    << <<"<tr>">> >>
        \o [j \in 1..Len(row) |->
               <<" ", " ", CellTag(i)[1]>> \o row[j] \o <<CellTag(i)[2]>>]
        \o << <<"</tr>">> >>

\* lines 212-224
TableHtml(rows) ==
    Join(<< <<"<table>">> >>
             \o Join([i \in 1..Len(rows) |-> HtmlRow(rows[i], i)], <<>>)
             \o << <<"</table>">> >>,
         <<"\n">>)

RECURSIVE _convert_node(_, _, _)

NodesLoop(list, rs) == [kind |-> "nodes", nodes |-> list, runs |-> rs]

\* lines 146-155: one child of a table cell
CellChild(child, st, rs) ==
    IF child.type \in {"inline_math", "display_math"}
    THEN LET m == _convert_math(child, rs[st.calls + 1])
         IN  IF Strip(m.latex) # <<>>
             THEN Emit(WithMath(st, m), InlineLatex(Strip(m.latex)),
                       InlineLatex(Strip(m.latex)), InlineHtml(Strip(m.latex)))
             ELSE WithMath(st, m)
    ELSE _convert_node(child, st, rs)

\* lines 136-161
_convert_cell(children, st, rs) ==
    LET c == Fold([kind |-> "cell", nodes |-> children, runs |-> rs],
                  1, Len(children), NoParts(st))
    IN  [latex |-> to_line(c.latex_parts), md |-> to_line(c.md_parts),
         html |-> to_line(c.html_parts), warnings |-> c.warnings, calls |-> c.calls]

\* lines 177-181: one cell of a row
RowCell(cell_children, st, rs) ==
    LET c == _convert_cell(cell_children, st, rs)
    IN  [lat_cells |-> Append(st.lat_cells, c.latex),
         md_cells |-> Append(st.md_cells, c.md),
         htm_cells |-> Append(st.htm_cells, c.html),
         warnings |-> c.warnings, calls |-> c.calls]

\* lines 176-185: one row of the table
TableRow(row, st, rs) ==
    LET r == Fold([kind |-> "row", cells |-> row, runs |-> rs], 1, Len(row),
                  [lat_cells |-> <<>>, md_cells |-> <<>>, htm_cells |-> <<>>,
                   warnings |-> st.warnings, calls |-> st.calls])
    IN  [latex_rows |-> Append(st.latex_rows, r.lat_cells),
         md_rows |-> Append(st.md_rows, r.md_cells),
         html_rows |-> Append(st.html_rows, r.htm_cells),
         warnings |-> r.warnings, calls |-> r.calls]

\* the lists of the caller after the cells have been converted
AfterTable(st, t) == [st EXCEPT !.warnings = t.warnings, !.calls = t.calls]

\* lines 164-224
_convert_table(node, st, rs) ==
    LET t == Fold([kind |-> "rows", rows |-> node.table_rows, runs |-> rs],
                  1, Len(node.table_rows),
                  [latex_rows |-> <<>>, md_rows |-> <<>>, html_rows |-> <<>>,
                   warnings |-> st.warnings, calls |-> st.calls])
    IN  IF t.latex_rows = <<>>
        THEN AfterTable(st, t)
        ELSE Emit(AfterTable(st, t),
                  TableLatex(t.latex_rows, NumCols(t.latex_rows)),
                  TableMarkdown(t.md_rows, NumCols(t.latex_rows)),
                  TableHtml(t.html_rows))

\* lines 86-95
ConvertParagraph(node, st, rs) ==
    LET p == Fold(NodesLoop(node.children, rs), 1, Len(node.children), NoParts(st))
    IN  Emit(AfterTable(st, p),
             Join(SelectSeq(p.latex_parts, NonEmpty), <<" ">>),
             Join(SelectSeq(p.md_parts, NonEmpty), <<" ">>),
             <<"<p>">> \o Join(SelectSeq(p.html_parts, NonEmpty), <<" ">>) \o <<"</p>">>)

\* lines 66-71
ConvertInline(st, m) ==
    Emit(WithMath(st, m), InlineLatex(m.latex), InlineLatex(m.latex), InlineHtml(m.latex))

\* lines 73-84
ConvertDisplay(node, st, m) ==
    Emit(WithMath(st, m), DisplayBlock(node, "\\[", m.latex, "\\]"),
         DisplayBlock(node, "$$", m.latex, "$$"), DisplayHtml(m.latex))

\* lines 57-116
_convert_node(node, st, rs) ==
    CASE node.type = "inline_math" ->
           ConvertInline(st, _convert_math(node, rs[st.calls + 1]))
      [] node.type = "display_math" ->
           ConvertDisplay(node, st, _convert_math(node, rs[st.calls + 1]))
      [] node.type = "paragraph" -> ConvertParagraph(node, st, rs)
      [] node.type = "table" -> _convert_table(node, st, rs)
      [] OTHER ->
           Emit(st, node_to_latex(node), node_to_markdown(node), node_to_html(node))

NoContent_no_warning ==
    [latex |-> <<>>, markdown |-> <<>>, html |-> <<>>, warnings |-> <<>>]

\* lines 34-39
NoContent ==
    [latex |-> <<>>, markdown |-> <<>>, html |-> <<>>,
     warnings |-> << <<"No content found in clipboard HTML.">> >>]

\* lines 50-53
Joined(parts, sep) == Strip(Join(SelectSeq(parts, NonBlank), sep))

\* lines 29-54, from the parsed nodes on
convert_html(tree, rs) ==
    IF tree = <<>>
    THEN Returned(NoContent)
    ELSE LET st == Fold(NodesLoop(tree, rs), 1, Len(tree),
                        [latex_parts |-> <<>>, md_parts |-> <<>>, html_parts |-> <<>>,
                         warnings |-> <<>>, calls |-> 0])
         IN  Returned([latex |-> Joined(st.latex_parts, <<"\n", "\n">>),
                       markdown |-> Joined(st.md_parts, <<"\n", "\n">>),
                       html |-> Joined(st.html_parts, <<"\n">>),
                       warnings |-> st.warnings])

\* the body of every loop
Step(loop, st, j) ==
    CASE loop.kind = "match" -> MatchStep(loop.s, loop.pat, st, j)
      [] loop.kind = "expand" -> ExpandStep(loop.tmpl, loop.s, loop.caps, st, j)
      [] loop.kind = "sub" -> SubStep(loop.s, loop.tmpl, st, loop.hits[j])
      [] loop.kind = "split" -> SplitStep(loop.s, st, loop.hits[j])
      [] loop.kind = "scan" -> ScanStep(loop.s, st, loop.at[j], loop.s[loop.at[j] + 1])
      [] loop.kind = "subs" -> ReSub(loop.subs[j].pat, loop.subs[j].tmpl, st)
      [] loop.kind = "pass" -> PassStep(st, j)
      [] loop.kind = "nodes" -> _convert_node(loop.nodes[j], st, loop.runs)
      [] loop.kind = "cell" -> CellChild(loop.nodes[j], st, loop.runs)
      [] loop.kind = "row" -> RowCell(loop.cells[j], st, loop.runs)
      [] loop.kind = "rows" -> TableRow(loop.rows[j], st, loop.runs)

\* parser.py lines 22-32: DocNode
DocNode(type) ==
    [type |-> type, content |-> <<>>, html |-> <<>>, level |-> 0,
     omml_xml |-> <<>>, math_env |-> "", children |-> <<>>, table_rows |-> <<>>,
     list_ordered |-> FALSE]

\* parser.py line 368: a text node keeps its text as content and as html
Text(t) == [DocNode("text") EXCEPT !.content = t, !.html = t]
Heading(level, t) == [DocNode("heading") EXCEPT !.content = t, !.level = level]
InlineMath(xml) == [DocNode("inline_math") EXCEPT !.omml_xml = xml]
DisplayMath(xml, env) ==
    [DocNode("display_math") EXCEPT !.omml_xml = xml, !.math_env = env]
Paragraph(children) == [DocNode("paragraph") EXCEPT !.children = children]
Table(rows) == [DocNode("table") EXCEPT !.table_rows = rows]

\* the math nodes of a tree in the order in which _convert_math meets them
RECURSIVE MathNodes(_)
MathNodesOf(node) ==
    CASE node.type \in {"inline_math", "display_math"} -> <<node>>
      [] node.type = "paragraph" -> MathNodes(node.children)
      [] node.type = "table" -> MathNodes(Join(Join(node.table_rows, <<>>), <<>>))
      [] OTHER -> <<>>

MathNodes(list) ==
    IF list = <<>> THEN <<>>
    ELSE MathNodesOf(Head(list)) \o MathNodes(Tail(list))

\* the calls of omml_to_latex that converting the tree makes
Calls(tree) == SelectSeq(MathNodes(tree), LAMBDA n : n.omml_xml # <<>>)

(***************************************************************************)
(* Specifications.  Each one moves its own variables and leaves the        *)
(* others at rest.                                                         *)
(***************************************************************************)
NoRun == [kind |-> "none", returncode |-> 0, stdout |-> <<>>, stderr |-> <<>>]

PostIdle ==
    /\ latex = <<>>
    /\ npieces = 0
    /\ out1 = <<>>
    /\ out2 = <<>>
    /\ ppc = "idle"

BridgeIdle ==
    /\ omml_xml = <<>>
    /\ run = NoRun
    /\ ret = Returned(<<>>)
    /\ bpc = "idle"

ConvertIdle ==
    /\ nodes = <<>>
    /\ pandoc_installed = TRUE
    /\ runs = <<>>
    /\ result = Returned(NoContent)
    /\ pc = "idle"

ParseIdle ==
    /\ soup = <<>>
    /\ display_blocks = <<>>
    /\ inline_blocks = <<>>
    /\ parsed = <<>>
    /\ prc = "idle"

IsolateIdle ==
    /\ markup = <<>>
    /\ mpieces = 0
    /\ isolated = <<>>
    /\ ipc = "idle"

CfHtmlIdle ==
    /\ fragment = <<>>
    /\ fruns = 0
    /\ blob = <<>>
    /\ fpc = "idle"

ClipboardIdle ==
    /\ caller = ""
    /\ held_by = "nobody"
    /\ available = FALSE
    /\ attempts = 0
    /\ outcome = ""
    /\ cpc = "idle"

OcrIdle ==
    /\ _got_model = 0
    /\ _got_tokenizer = 0
    /\ _texify_model = 0
    /\ _texify_processor = 0
    /\ created = <<>>
    /\ worker = <<>>

TempIdle ==
    /\ tmp_files = {}

EscapeIdle ==
    /\ plain = <<>>
    /\ escaped = <<>>
    /\ epc = "idle"

StreamIdle ==
    /\ queue = <<>>
    /\ wpc = "idle"
    /\ produced = 0
    /\ events = <<>>
    /\ gpc = "idle"

HistoryIdle ==
    /\ history = {}
    /\ added = <<>>
    /\ removed = {}
    /\ removals = 0
    /\ hpc = "idle"

SvcIdle == OcrIdle /\ TempIdle /\ EscapeIdle /\ StreamIdle /\ HistoryIdle

LaterIdle == ParseIdle /\ IsolateIdle /\ CfHtmlIdle /\ ClipboardIdle /\ SvcIdle

EarlierIdle == PostIdle /\ BridgeIdle /\ ConvertIdle

IdleExceptPs == EarlierIdle /\ IsolateIdle /\ CfHtmlIdle /\ ClipboardIdle /\ SvcIdle

IdleExceptIs == EarlierIdle /\ ParseIdle /\ CfHtmlIdle /\ ClipboardIdle /\ SvcIdle

IdleExceptCf == EarlierIdle /\ ParseIdle /\ IsolateIdle /\ ClipboardIdle /\ SvcIdle

IdleExceptCb == EarlierIdle /\ ParseIdle /\ IsolateIdle /\ CfHtmlIdle /\ SvcIdle

CoreIdle == EarlierIdle /\ ParseIdle /\ IsolateIdle /\ CfHtmlIdle /\ ClipboardIdle

SvcIdleExceptOc == TempIdle /\ EscapeIdle /\ StreamIdle /\ HistoryIdle

IdleExceptOc == CoreIdle /\ SvcIdleExceptOc

SvcIdleExceptTm == OcrIdle /\ EscapeIdle /\ StreamIdle /\ HistoryIdle

IdleExceptTm == CoreIdle /\ SvcIdleExceptTm

SvcIdleExceptEs == OcrIdle /\ TempIdle /\ StreamIdle /\ HistoryIdle

IdleExceptEs == CoreIdle /\ SvcIdleExceptEs

SvcIdleExceptSe == OcrIdle /\ TempIdle /\ EscapeIdle /\ HistoryIdle

IdleExceptSe == CoreIdle /\ SvcIdleExceptSe

SvcIdleExceptHs == OcrIdle /\ TempIdle /\ EscapeIdle /\ StreamIdle

IdleExceptHs == CoreIdle /\ SvcIdleExceptHs

(***************************************************************************)
(* Spec: one convert_html request.  The parser hands over a tree of up to  *)
(* MaxNodes top-level nodes that makes up to MaxCalls calls of the Math    *)
(* Bridge; every call gets a run of the pandoc subprocess.                 *)
(***************************************************************************)
MaxNodes == 2
MaxCalls == 2

OmmlX == <<"<", "m", ">", "x", "<", "/", "m", ">">>

TextA == Text(<<"a", "_", "b", "|", "c">>)

NodePool ==
    { TextA,
      Heading(2, <<"a", "&", "b">>),
      DisplayMath(OmmlX, "aligned"),
      DisplayMath(OmmlX, "multiline"),
      DisplayMath(OmmlX, "pmatrix"),
      DisplayMath(OmmlX, ""),
      Paragraph(<<TextA, InlineMath(OmmlX), Text(<<"d">>)>>),
      Table(<< << <<TextA>>, <<InlineMath(OmmlX)>> >>,
               << <<DisplayMath(OmmlX, "aligned"), Text(<<"d">>)>> >> >>),
      Table(<< << <<Text(<<"d">>)>> >>,
               << <<>>, <<TextA, Text(<<"d">>)>>, <<Text(<<"d">>)>> >> >>) }

\* what pandoc prints for the fragment when it converts it
Converted == {<<"\\", "[", "x", "=", "1", "\n", "y", "\\", "]", "\n">>}

ConvertRuns ==
    {Exited(0, o, <<>>) : o \in Converted}
        \cup {Exited(1, <<>>, <<"E">>), TimedOut, LaunchError(PermissionDenied)}

\* the runs the calls of one request can get
RunsOf(tree, installed) ==
    [1..Len(Calls(tree)) -> IF installed THEN ConvertRuns ELSE {Missing}]

Init ==
    /\ nodes = <<>>
    /\ pandoc_installed \in BOOLEAN
    /\ runs = <<>>
    /\ result = Returned(NoContent)
    /\ pc = "parse"
    /\ PostIdle
    /\ BridgeIdle
    /\ LaterIdle

\* parse_clipboard_html extracts one more top-level node
ParseNode ==
    /\ pc = "parse"
    /\ Len(nodes) < MaxNodes
    /\ \E n \in NodePool :
          /\ Len(Calls(nodes)) + Len(Calls(<<n>>)) <= MaxCalls
          /\ nodes' = Append(nodes, n)
    /\ UNCHANGED <<pandoc_installed, runs, result, pc>>
    /\ UNCHANGED ppVars
    /\ UNCHANGED brVars
    /\ UNCHANGED laterVars

\* convert_html renders the tree and returns
ConvertHtml ==
    /\ pc = "parse"
    /\ \E rs \in RunsOf(nodes, pandoc_installed) :
          /\ runs' = rs
          /\ result' = convert_html(nodes, rs)
    /\ pc' = "done"
    /\ UNCHANGED <<nodes, pandoc_installed>>
    /\ UNCHANGED ppVars
    /\ UNCHANGED brVars
    /\ UNCHANGED laterVars

Next == ParseNode \/ ConvertHtml

Spec == Init /\ [][Next]_vars

(***************************************************************************)
(* SpecBridge: one call of omml_to_latex on a drawn fragment               *)
(***************************************************************************)
MaxFragment == 5

FragmentChars == {"<", ">", "m", " "}

BridgeInit ==
    /\ omml_xml = <<>>
    /\ run = NoRun
    /\ ret = Returned(<<>>)
    /\ bpc = "build"
    /\ PostIdle
    /\ ConvertIdle
    /\ LaterIdle

AddChar ==
    /\ bpc = "build"
    /\ Len(omml_xml) < MaxFragment
    /\ \E c \in FragmentChars : omml_xml' = Append(omml_xml, c)
    /\ UNCHANGED <<run, ret, bpc>>
    /\ UNCHANGED ppVars
    /\ UNCHANGED cvVars
    /\ UNCHANGED laterVars

CallOmmlToLatex ==
    /\ bpc = "build"
    /\ \E r \in BridgeRuns :
          /\ run' = r
          /\ ret' = omml_to_latex(omml_xml, r)
    /\ bpc' = "called"
    /\ UNCHANGED omml_xml
    /\ UNCHANGED ppVars
    /\ UNCHANGED cvVars
    /\ UNCHANGED laterVars

BridgeNext == AddChar \/ CallOmmlToLatex

SpecBridge == BridgeInit /\ [][BridgeNext]_vars

(***************************************************************************)
(* Specification of the postprocessor passes on drawn inputs               *)
(***************************************************************************)
MaxPieces == 4

Pieces ==
    { <<"{", "a", "}">>,
      <<"{", "a", "b", "c", "d", "e", "}">>,
      <<"{", "a", "b", "c", "d", "e", "f", "}">>,
      <<"{", " ", "a", "b", "c", "d", " ", "}">>,
      <<"{", "a", "\n", "b", "}">>,
      <<"{", "{", "a", "\n", "b", "}", "}">>,
      <<"{">>,
      <<"}">>,
      <<" ">>,
      <<"\n">>,
      <<"x">> }

PostInit ==
    /\ latex = <<>>
    /\ npieces = 0
    /\ out1 = <<>>
    /\ out2 = <<>>
    /\ ppc = "build"
    /\ BridgeIdle
    /\ ConvertIdle
    /\ LaterIdle

AddPiece ==
    /\ ppc = "build"
    /\ npieces < MaxPieces
    /\ \E p \in Pieces : latex' = latex \o p
    /\ npieces' = npieces + 1
    /\ UNCHANGED <<out1, out2, ppc>>
    /\ UNCHANGED brVars
    /\ UNCHANGED cvVars
    /\ UNCHANGED laterVars

ApplyUnwrap ==
    /\ ppc = "build"
    /\ out1' = _unwrap_multiline_groups(latex)
    /\ out2' = _unwrap_multiline_groups(out1')
    /\ ppc' = "applied"
    /\ UNCHANGED <<latex, npieces>>
    /\ UNCHANGED brVars
    /\ UNCHANGED cvVars
    /\ UNCHANGED laterVars

PostNext == AddPiece \/ ApplyUnwrap

SpecPost == PostInit /\ [][PostNext]_vars

(***************************************************************************)
(* Claims on _unwrap_multiline_groups                                      *)
(***************************************************************************)
\* brace depth after the first i characters, by counting
BraceDepth(s, i) ==
    Cardinality({j \in 1..i : s[j] = "{"}) - Cardinality({j \in 1..i : s[j] = "}"})

\* positions that open a top-level group
GroupOpens(s) == {i \in 1..Len(s) : s[i] = "{" /\ BraceDepth(s, i - 1) = 0}

\* the position that closes the group opened at i
GroupClose(s, i) ==
    CHOOSE k \in (i + 1)..Len(s) :
        /\ BraceDepth(s, k) = 0
        /\ \A m \in i..(k - 1) : BraceDepth(s, m) > 0

\* the whole string, up to whitespace, is a sequence of top-level brace groups
OnlyGroups(s) ==
    /\ \A i \in 1..Len(s) : BraceDepth(s, i) >= 0
    /\ BraceDepth(s, Len(s)) = 0
    /\ \A i \in 1..Len(s) :
           (BraceDepth(s, i - 1) = 0 /\ s[i] # "{") => IsSpace(s[i])

RowOf(s, i) == Strip(SubSeq(s, i + 1, GroupClose(s, i) - 1))

RECURSIVE RowsFrom(_, _)
RowsFrom(s, opens) ==
    IF opens = {} THEN <<>>
    ELSE LET i == CHOOSE x \in opens : \A y \in opens : x <= y
         IN  <<RowOf(s, i)>> \o RowsFrom(s, opens \ {i})

MultilineCase(s) ==
    /\ OnlyGroups(s)
    /\ Cardinality(GroupOpens(s)) >= 2
    /\ \/ \E i \in 1..Len(s) : s[i] = "\n" /\ BraceDepth(s, i) > 0
       \/ Cardinality(GroupOpens(s)) >= 3
       \/ /\ Cardinality(GroupOpens(s)) = 2
          /\ \A i \in GroupOpens(s) : Len(RowOf(s, i)) > 5

\* C9: multi-line unwrap rewrites its input into the trimmed group contents
\* joined by the row separator exactly when the whole input, up to
\* whitespace, is a sequence of at least two top-level brace groups and
\* (a) a group holds a line break, or (b) there are three or more groups, or
\* (c) there are two groups, both with more than 5 trimmed characters;
\* otherwise the input is returned unchanged.
C9_UnwrapExactlyWhen ==
    ppc = "applied" =>
        IF MultilineCase(latex)
        THEN /\ out1 = Join(RowsFrom(latex, GroupOpens(latex)), RowSep)
             /\ out1 # latex
        ELSE out1 = latex

C9_Witness ==
    /\ ppc = "applied"
    /\ MultilineCase(latex)
    /\ Cardinality(GroupOpens(latex)) = 2
    /\ ~Contains(latex, "\n")
    /\ out1 # latex

\* C10: multi-line unwrap is idempotent, also when the unwrapped rows
\* themselves contain brace groups.
C10_UnwrapIdempotent == ppc = "applied" => out2 = out1

C10_Witness ==
    /\ ppc = "applied"
    /\ out1 # latex
    /\ Contains(out1, "{")
    /\ out2 = out1

(***************************************************************************)
(* Claims on convert_html                                                  *)
(***************************************************************************)
Done == pc = "done"

Output == result.value

\* the atom a occurs n times in s
Count(s, a) == Cardinality({i \in 1..Len(s) : s[i] = a})

\* p occurs in s as a block of consecutive atoms
IsInfix(p, s) ==
    \E i \in 1..(Len(s) - Len(p) + 1) : SubSeq(s, i, i + Len(p) - 1) = p

\* the bridge call number k of the request raised
BridgeRaised(k) == omml_to_latex(Calls(nodes)[k].omml_xml, runs[k]).raised # ""

\* a run in which pandoc converts the fragment to the empty string
ConvertedToEmpty == Exited(0, <<>>, <<>>)

\* w is v with one more element
OneMore(w, v) ==
    /\ Len(w) = Len(v) + 1
    /\ \E p \in 1..Len(w) : SubSeq(w, 1, p - 1) \o SubSeq(w, p + 1, Len(w)) = v

\* the request as it would have gone with call k converting to ""
WithEmpty(k) == convert_html(nodes, [runs EXCEPT ![k] = ConvertedToEmpty]).value

\* C1: when the bridge conversion of one math node raises, convert_html
\* still returns a result record, exactly one warning is appended for that
\* node, and all three outputs are what they would be had that node
\* converted to the empty string.
C1_RaisingMathIsContained ==
    Done =>
        /\ result.raised = ""
        /\ \A k \in 1..Len(runs) :
              BridgeRaised(k) =>
                  LET w == WithEmpty(k)
                  IN  /\ Output.latex = w.latex
                      /\ Output.markdown = w.markdown
                      /\ Output.html = w.html
                      /\ OneMore(Output.warnings, w.warnings)

C1_Witness ==
    /\ Done
    /\ Len(nodes) = 2
    /\ nodes[1].type = "table"
    /\ Len(runs) = 2
    /\ runs[1].kind = "exited" /\ runs[1].returncode = 0
    /\ BridgeRaised(2)
    /\ Len(Output.warnings) = 1
    /\ Output.latex # <<>>

\* C2: when the pandoc binary is absent, a request whose tree holds a math
\* node fails as a whole: the missing-converter error reaches the caller of
\* convert_html and no result record is returned.
C2_MissingConverterAborts ==
    (Done /\ ~pandoc_installed /\ Len(Calls(nodes)) >= 1) => result.raised # ""

\* the conversion of call k fell back to plain-text extraction
FellBack(k) ==
    \/ runs[k].kind = "timeout"
    \/ runs[k].kind = "exited" /\ runs[k].returncode # 0

\* C4: after convert_html returns, the warnings list holds a warning for
\* each math node whose conversion fell back to plain-text extraction.
C4_FallbacksAreWarned ==
    Done => Len(Output.warnings) >= Cardinality({k \in 1..Len(runs) : FellBack(k)})

\* C5: with zero nodes extracted, convert_html returns latex, markdown and
\* html all empty and a warnings list that holds exactly one warning.
C5_NoNodes ==
    (Done /\ nodes = <<>>) =>
        /\ result.raised = ""
        /\ Output.latex = <<>>
        /\ Output.markdown = <<>>
        /\ Output.html = <<>>
        /\ Len(Output.warnings) = 1

C5_Witness == Done /\ nodes = <<>> /\ runs = <<>>

\* the lines of s: where they start, and the line that starts at a
LineStarts(s) == {1} \cup {i + 1 : i \in {j \in 1..Len(s) : s[j] = "\n"}}
LineEnd(s, a) == LeastOr({i \in a..Len(s) : s[i] = "\n"}, Len(s) + 1) - 1
LineAt(s, a) == SubSeq(s, a, LineEnd(s, a))

\* the table nodes of the tree, and for each row of each of them, in
\* document order, the cell count of the longest row of its table
TopTables == SelectSeq(nodes, LAMBDA n : n.type = "table")
WidthsOf(t, extra) == [i \in 1..(Len(t.table_rows) + extra) |-> NumCols(t.table_rows)]
LongestRows(extra) == Join([i \in 1..Len(TopTables) |-> WidthsOf(TopTables[i], extra)], <<>>)

\* the rows of the tabular environments of the LaTeX output: the lines
\* that end with the row terminator; their cells are separated by " & "
IsLatexRow(line) == Len(line) >= 3 /\ SubSeq(line, Len(line) - 2, Len(line)) = <<" ", "\\", "\\">>
InTabular(s, a) ==
    Cardinality({i \in 1..Len(s) : i < a /\ s[i] = "\\begin{tabular}"})
        > Cardinality({i \in 1..Len(s) : i < a /\ s[i] = "\\end{tabular}"})
LatexRowStarts(s) == {a \in LineStarts(s) : InTabular(s, a) /\ IsLatexRow(LineAt(s, a))}
LatexCells(line) ==
    1 + Cardinality({i \in 2..(Len(line) - 1) :
                       line[i] = "&" /\ line[i - 1] = " " /\ line[i + 1] = " "})
LatexRowWidths(s) ==
    [k \in 1..Cardinality(LatexRowStarts(s)) |-> LatexCells(LineAt(s, Sorted(LatexRowStarts(s))[k]))]

\* the rows of the pipe tables of the Markdown output, the header
\* separator included: the lines that start with "| "; a pipe that is not
\* escaped ends a cell
IsMdRow(line) == Len(line) >= 2 /\ SubSeq(line, 1, 2) = <<"|", " ">>
MdRowStarts(s) == {a \in LineStarts(s) : IsMdRow(LineAt(s, a))}
MdCells(line) ==
    Cardinality({i \in 1..Len(line) : line[i] = "|" /\ (i = 1 \/ line[i - 1] # "\\")}) - 1
MdRowWidths(s) ==
    [k \in 1..Cardinality(MdRowStarts(s)) |-> MdCells(LineAt(s, Sorted(MdRowStarts(s))[k]))]

\* the rows of the HTML tables: from <tr> to the next </tr>
HtmlRowStarts(s) == {i \in 1..Len(s) : s[i] = "<tr>"}
HtmlRowEnd(s, a) == LeastOr({i \in a..Len(s) : s[i] = "</tr>"}, Len(s))
HtmlCells(s, a) ==
    Cardinality({i \in a..HtmlRowEnd(s, a) : s[i] \in {"<th>", "<td>"}})
HtmlRowWidths(s) ==
    [k \in 1..Cardinality(HtmlRowStarts(s)) |-> HtmlCells(s, Sorted(HtmlRowStarts(s))[k])]

\* C6: for every table whose rows have unequal cell counts, every rendered
\* row of the LaTeX tabular, of the Markdown pipe table and of the HTML
\* table has as many cells as the longest row of that table.
C6_RowsPaddedInAllFormats ==
    Done =>
        /\ LatexRowWidths(Output.latex) = LongestRows(0)
        /\ MdRowWidths(Output.markdown) = LongestRows(1)
        /\ HtmlRowWidths(Output.html) = LongestRows(0)

\* the LaTeX and Markdown part of C6, which the code keeps
C6_LatexAndMarkdownPadded ==
    Done =>
        /\ LatexRowWidths(Output.latex) = LongestRows(0)
        /\ MdRowWidths(Output.markdown) = LongestRows(1)

\* the cells of all tables of the tree in document order
TableCells(t) == Join(t.table_rows, <<>>)
AllCells == Join([i \in 1..Len(TopTables) |-> TableCells(TopTables[i])], <<>>)

\* the bridge calls made before the tree reaches cell q of AllCells
CallsBeforeTable(i) ==
    Len(Calls(SubSeq(nodes, 1,
        (CHOOSE j \in 1..Len(nodes) :
            /\ nodes[j].type = "table"
            /\ Len(SelectSeq(SubSeq(nodes, 1, j), LAMBDA n : n.type = "table")) = i) - 1)))
TableOfCell(q) ==
    CHOOSE i \in 1..Len(TopTables) :
        /\ Len(Join([k \in 1..(i - 1) |-> TableCells(TopTables[k])], <<>>)) < q
        /\ q <= Len(Join([k \in 1..i |-> TableCells(TopTables[k])], <<>>))
CellsBeforeInTable(q) ==
    SubSeq(AllCells,
           Len(Join([k \in 1..(TableOfCell(q) - 1) |-> TableCells(TopTables[k])], <<>>)) + 1,
           q - 1)
CallsBeforeCell(q) ==
    CallsBeforeTable(TableOfCell(q)) + Len(Calls(Join(CellsBeforeInTable(q), <<>>)))

\* the three strings of cell q as _convert_cell returns them
CellStrings(q) ==
    _convert_cell(AllCells[q], [warnings |-> <<>>, calls |-> CallsBeforeCell(q)], runs)

\* the math nodes of cell q that convert to something
EmittedMath(q) ==
    {j \in 1..Len(Calls(AllCells[q])) :
        Strip(_convert_math(Calls(AllCells[q])[j], runs[CallsBeforeCell(q) + j]).latex) # <<>>}

BlockAtoms == {"\\[", "\\]", "$$", "\\begin{aligned}", "\\end{aligned}", "<div"}

NoBlock(s) == \A i \in 1..Len(s) : s[i] \notin BlockAtoms

\* C7: the rendered string of every table cell holds, in each of the three
\* formats, no line break, and a math node in a cell is emitted with the
\* inline delimiters, never with block delimiters or an aligned wrapper.
C7_CellsAreSingleLineInline ==
    Done =>
        \A q \in 1..Len(AllCells) :
            LET cell == CellStrings(q)
                emitted == Cardinality(EmittedMath(q))
            IN  /\ IsInfix(cell.latex, Output.latex)
                /\ IsInfix(EscapePipes(cell.md), Output.markdown)
                /\ IsInfix(cell.html, Output.html)
                /\ ~Contains(cell.latex, "\n")
                /\ ~Contains(cell.md, "\n")
                /\ ~Contains(cell.html, "\n")
                /\ NoBlock(cell.latex)
                /\ NoBlock(cell.md)
                /\ NoBlock(cell.html)
                /\ Count(cell.latex, "$") = 2 * emitted
                /\ Count(cell.md, "$") = 2 * emitted
                /\ Count(cell.html, "\\(") = emitted
                /\ Count(cell.html, "\\)") = emitted

C7_Witness ==
    /\ Done
    /\ \E q \in 1..Len(AllCells) :
          /\ Len(AllCells[q]) = 2
          /\ AllCells[q][1].type = "display_math"
          /\ AllCells[q][1].math_env = "aligned"
          /\ EmittedMath(q) = {1}
          /\ Contains(_convert_math(AllCells[q][1], runs[CallsBeforeCell(q) + 1]).latex, "\n")


\* the DisplayMath nodes outside tables, and what their math converted to
TopDisplays == {i \in 1..Len(nodes) : nodes[i].type = "display_math"}
MathOf(i) == _convert_math(nodes[i], runs[Len(Calls(SubSeq(nodes, 1, i - 1))) + 1]).latex
AlignedEnv(i) == nodes[i].math_env = "aligned" \/ nodes[i].math_env = "multiline"

Wrapped(open, m, close) ==
    <<open, "\n", "\\begin{aligned}", "\n">> \o m \o <<"\n", "\\end{aligned}", "\n", close>>
Bare(open, m, close) == <<open, "\n">> \o m \o <<"\n", close>>

\* C8: a DisplayMath node outside a table is rendered, in the LaTeX and in
\* the Markdown output, with the aligned wrapper inside the block
\* delimiters exactly when its mathEnvironment is aligned or multiline;
\* otherwise the block delimiters enclose the bare converted math.
C8_AlignedWrapperExactlyWhen ==
    Done =>
        /\ \A i \in TopDisplays :
              IF AlignedEnv(i)
              THEN /\ IsInfix(Wrapped("\\[", MathOf(i), "\\]"), Output.latex)
                   /\ IsInfix(Wrapped("$$", MathOf(i), "$$"), Output.markdown)
              ELSE /\ IsInfix(Bare("\\[", MathOf(i), "\\]"), Output.latex)
                   /\ IsInfix(Bare("$$", MathOf(i), "$$"), Output.markdown)
        /\ Count(Output.latex, "\\begin{aligned}")
               = Cardinality({i \in TopDisplays : AlignedEnv(i)})
        /\ Count(Output.markdown, "\\begin{aligned}")
               = Cardinality({i \in TopDisplays : AlignedEnv(i)})

C8_Witness ==
    /\ Done
    /\ \E i \in TopDisplays : nodes[i].math_env = "multiline" /\ MathOf(i) # <<>>
    /\ \E i \in TopDisplays : nodes[i].math_env = "pmatrix" /\ MathOf(i) # <<>>

(***************************************************************************)
(* Claims on omml_to_latex                                                 *)
(***************************************************************************)
\* a tag starts at p: "<", at least one character other than ">", then ">"
TagStartsAt(s, p) ==
    /\ s[p] = "<"
    /\ p + 1 <= Len(s)
    /\ s[p + 1] # ">"
    /\ \E q \in (p + 2)..Len(s) : s[q] = ">"

\* position i lies in a tag
InTag(s, i) ==
    \E p \in 1..i :
        /\ TagStartsAt(s, p)
        /\ \A q \in (p + 2)..(i - 1) : s[q] # ">"

\* the characters of s outside every tag, in their order
OutsideTags(s) ==
    [k \in 1..Cardinality({i \in 1..Len(s) : ~InTag(s, i)}) |->
        s[Sorted({i \in 1..Len(s) : ~InTag(s, i)})[k]]]

\* t is x without its leading and trailing whitespace
IsTrimOf(t, x) ==
    /\ t = <<>> \/ (~IsSpace(t[1]) /\ ~IsSpace(t[Len(t)]))
    /\ \E a \in 0..Len(x) :
          /\ \A i \in 1..a : IsSpace(x[i])
          /\ \A i \in (a + Len(t) + 1)..Len(x) : IsSpace(x[i])
          /\ a + Len(t) <= Len(x)
          /\ SubSeq(x, a + 1, a + Len(t)) = t

\* the subprocess exited non-zero or ran out of time
Degraded(r) == r.kind = "timeout" \/ (r.kind = "exited" /\ r.returncode # 0)

\* C3: when the converter subprocess exits non-zero or times out,
\* omml_to_latex raises nothing and returns the raw fragment with every tag
\* removed and the outer whitespace trimmed, never the subprocess's stderr.
C3_FallbackIsTagStrippedFragment ==
    (bpc = "called" /\ Degraded(run)) =>
        /\ ret.raised = ""
        /\ IsTrimOf(ret.value, OutsideTags(omml_xml))
        /\ run.stderr # <<>> => ret.value # run.stderr

C3_Witness ==
    /\ bpc = "called"
    /\ run.kind = "exited" /\ run.returncode # 0 /\ run.stderr # <<>>
    /\ \E i \in 1..Len(omml_xml) : InTag(omml_xml, i)
    /\ ret.value # <<>>
    /\ Len(ret.value) < Len(Strip(omml_xml))

(***************************************************************************)
(* SpecAlign: _add_alignment_markers on drawn multi-row input              *)
(***************************************************************************)
MaxAlignPieces == 4

AlignPieces ==
    { <<"a">>,
      <<"=">>,
      <<"<">>,
      <<">">>,
      <<"\\", "l", "e">>,
      <<"{">>,
      <<"}">>,
      <<"&">>,
      <<" ">>,
      <<"\n">>,
      <<"\\", "\\">> }

AlignInit ==
    /\ latex = <<>>
    /\ npieces = 0
    /\ out1 = <<>>
    /\ out2 = <<>>
    /\ ppc = "build"
    /\ BridgeIdle
    /\ ConvertIdle
    /\ LaterIdle

AddAlignPiece ==
    /\ ppc = "build"
    /\ npieces < MaxAlignPieces
    /\ \E p \in AlignPieces : latex' = latex \o p
    /\ npieces' = npieces + 1
    /\ UNCHANGED <<out1, out2, ppc>>
    /\ UNCHANGED brVars
    /\ UNCHANGED cvVars
    /\ UNCHANGED laterVars

ApplyAlign ==
    /\ ppc = "build"
    /\ out1' = _add_alignment_markers(latex)
    /\ ppc' = "aligned"
    /\ UNCHANGED <<latex, npieces, out2>>
    /\ UNCHANGED brVars
    /\ UNCHANGED cvVars
    /\ UNCHANGED laterVars

AlignNext == AddAlignPiece \/ ApplyAlign

SpecAlign == AlignInit /\ [][AlignNext]_vars

(***************************************************************************)
(* Claims on _add_alignment_markers                                        *)
(***************************************************************************)
\* where the row separators of s start: a pair of backslashes, pairs taken
\* from the left of each run of backslashes
SepStarts(s) ==
    {i \in 1..(Len(s) - 1) :
        /\ s[i] = "\\" /\ s[i + 1] = "\\"
        /\ LET before == GreatestOr({j \in 1..(i - 1) : s[j] # "\\"}, 0)
           IN  (i - before) % 2 = 1}

\* the rows of s: what lies between the separators, without the whitespace
\* that touches a separator
RowBounds(s) ==
    LET seps == Sorted(SepStarts(s))
    IN  [k \in 1..(Len(seps) + 1) |->
            [from  |-> IF k = 1 THEN 1 ELSE seps[k - 1] + 2,
             to    |-> IF k = Len(seps) + 1 THEN Len(s) ELSE seps[k] - 1,
             first |-> k = 1,
             last  |-> k = Len(seps) + 1]]

InputRow(s, b) ==
    LET raw   == SubSeq(s, b.from, b.to)
        left  == IF b.first THEN raw ELSE LStrip(raw)
    IN  IF b.last THEN left ELSE RStrip(left)

InputRows(s) == [k \in 1..Len(RowBounds(s)) |-> InputRow(s, RowBounds(s)[k])]

RelationNames ==
    { <<"a", "p", "p", "r", "o", "x">>, <<"s", "i", "m", "e", "q">>,
      <<"c", "o", "n", "g">>, <<"e", "q", "u", "i", "v">>, <<"s", "i", "m">>,
      <<"p", "r", "o", "p", "t", "o">>, <<"d", "o", "t", "e", "q">>,
      <<"l", "e", "q">>, <<"l", "e">>, <<"g", "e", "q">>, <<"g", "e">>,
      <<"l", "l">>, <<"g", "g">>, <<"n", "e", "q">>, <<"n", "e">>,
      <<"t", "o">>, <<"r", "i", "g", "h", "t", "a", "r", "r", "o", "w">>,
      <<"l", "e", "f", "t", "a", "r", "r", "o", "w">>,
      <<"R", "i", "g", "h", "t", "a", "r", "r", "o", "w">>,
      <<"L", "e", "f", "t", "a", "r", "r", "o", "w">>,
      <<"L", "e", "f", "t", "r", "i", "g", "h", "t", "a", "r", "r", "o", "w">>,
      <<"i", "f", "f">> }

IsLetter(c) == c \in Lower \cup Upper

\* the command word that starts at the backslash at p
CommandAt(row, p) ==
    SubSeq(row, p + 1,
           LeastOr({j \in (p + 1)..Len(row) : ~IsLetter(row[j])}, Len(row) + 1) - 1)

\* a named relation command starts at p
NamedRelationAt(row, p) == row[p] = "\\" /\ CommandAt(row, p) \in RelationNames

\* a bare < or > stands at p: one that no backslash escapes
BareAngleAt(row, p) ==
    /\ row[p] \in {"<", ">"}
    /\ (p > 1 => row[p - 1] # "\\")

\* the angle brackets the code takes as relations: not before a letter
CodeAngleAt(row, p) ==
    /\ BareAngleAt(row, p)
    /\ (p < Len(row) => ~IsLetter(row[p + 1]))

\* the relation operators of row that are outside every brace group
Relations(row, AngleAt(_, _)) ==
    {p \in 1..Len(row) :
        /\ NamedRelationAt(row, p) \/ row[p] = "=" \/ AngleAt(row, p)
        /\ BraceDepth(row, p - 1) <= 0}

\* what the claim says a row becomes
MarkedRow(row, AngleAt(_, _)) ==
    IF Contains(row, "&") \/ Relations(row, AngleAt) = {}
    THEN row
    ELSE LET p == LeastOr(Relations(row, AngleAt), 0)
         IN  SubSeq(row, 1, p - 1) \o <<"&">> \o SubSeq(row, p, Len(row))

MarkedRows(s, AngleAt(_, _)) ==
    Join([k \in 1..Len(InputRows(s)) |-> MarkedRow(InputRows(s)[k], AngleAt)], RowSep)

\* C11: for input that holds a row separator, every row that already holds
\* an alignment marker or has no relation operator (named relation command,
\* bare =, bare < or >) outside every brace group keeps its content, and
\* every other row gets exactly one marker, immediately before its
\* left-most relation operator outside every brace group.
C11_OneMarkerPerRow ==
    (ppc = "aligned" /\ SepStarts(latex) # {}) => out1 = MarkedRows(latex, BareAngleAt)

\* the same with the angle brackets the code takes as relations
C11_OneMarkerPerRowUnlessBeforeLetter ==
    (ppc = "aligned" /\ SepStarts(latex) # {}) => out1 = MarkedRows(latex, CodeAngleAt)

(***************************************************************************)
(* parser.py.  BeautifulSoup hands the walker a document: a Tag has a      *)
(* lower-case name, the list of its classes, a data-id and children; a     *)
(* NavigableString has text, and a Comment is a NavigableString that       *)
(* get_text leaves out.  Text is a sequence of atoms: a word that the code *)
(* never looks into is one atom, white space is one atom per character.    *)
(***************************************************************************)
Tag(name, class, data_id, children) ==
    [kind |-> "tag", name |-> name, class |-> class, data_id |-> data_id,
     children |-> children, text |-> <<>>]

NavigableString(text) ==
    [kind |-> "string", name |-> "", class |-> <<>>, data_id |-> <<>>,
     children |-> <<>>, text |-> text]

Comment(text) == [NavigableString(text) EXCEPT !.kind = "comment"]

IsTag(el) == el.kind = "tag"

\* Tag.descendants: every element below el, in document order
RECURSIVE Descendants(_)
Descendants(el) ==
    Join([i \in 1..Len(el.children) |->
             <<el.children[i]>> \o Descendants(el.children[i])], <<>>)

\* Tag.find_all(names)
find_all(el, names) ==
    SelectSeq(Descendants(el), LAMBDA d : IsTag(d) /\ d.name \in names)

\* Tag.find(name) found something (a Tag is always true)
Finds(el, name) == find_all(el, {name}) # <<>>

\* Tag.find(name), when it finds something
find(el, name) == find_all(el, {name})[1]

\* Tag.get_text(): the strings below el, comments left out
get_text(el) ==
    Join([i \in 1..Len(Descendants(el)) |->
             IF Descendants(el)[i].kind = "string" THEN Descendants(el)[i].text
             ELSE <<>>], <<>>)

\* Tag.get_text(strip=True): each string stripped, the empty ones dropped
get_text_strip(el) ==
    Join([i \in 1..Len(Descendants(el)) |->
             IF Descendants(el)[i].kind = "string" THEN Strip(Descendants(el)[i].text)
             ELSE <<>>], <<>>)

\* str(element): the markup of the element
RECURSIVE OuterHtml(_)
OuterHtml(el) ==
    CASE el.kind = "string" -> el.text
      [] el.kind = "comment" -> <<"<!--">> \o el.text \o <<"-->">>
      [] OTHER ->
           <<"<", el.name>>
               \o (IF el.class = <<>> THEN <<>>
                   ELSE <<" class=\"">> \o Join(el.class, <<" ">>) \o <<"\"">>)
               \o (IF el.data_id = <<>> THEN <<>>
                   ELSE <<" data-id=\"">> \o el.data_id \o <<"\"">>)
               \o <<">">>
               \o Join([i \in 1..Len(el.children) |-> OuterHtml(el.children[i])], <<>>)
               \o <<"</", el.name, ">">>

\* dict.get(key, "")
Get(dict, key) == IF key \in DOMAIN dict THEN dict[key] ELSE <<>>

\* str.lower()
UpperLetters ==
    <<"A", "B", "C", "D", "E", "F", "G", "H", "I", "J", "K", "L", "M",
      "N", "O", "P", "Q", "R", "S", "T", "U", "V", "W", "X", "Y", "Z">>
LowerLetters ==
    <<"a", "b", "c", "d", "e", "f", "g", "h", "i", "j", "k", "l", "m",
      "n", "o", "p", "q", "r", "s", "t", "u", "v", "w", "x", "y", "z">>

LowerChar(c) ==
    IF c \in Upper
    THEN LowerLetters[CHOOSE i \in 1..Len(UpperLetters) : UpperLetters[i] = c]
    ELSE c

lower(s) == [i \in 1..Len(s) |-> LowerChar(s[i])]

\* int() of one decimal digit
Digits == <<"0", "1", "2", "3", "4", "5", "6", "7", "8", "9">>

int(c) == (CHOOSE i \in 1..Len(Digits) : Digits[i] = c) - 1

\* line 36: r"MsoHeading(\d)" under IGNORECASE, on the lower-cased class
HEADING_RE ==
    <<Lit(<<"m", "s", "o", "h", "e", "a", "d", "i", "n", "g">>), One(ReDigit)>>

\* line 39
_FORMATTING_TAGS == {"b", "strong", "i", "em", "u", "sup", "sub", "s", "strike"}

HeadingNames == <<"h1", "h2", "h3", "h4", "h5", "h6">>

\* lines 253-258: the level of the first class that HEADING_RE matches, or 0
ClassLevel(c) ==
    LET m == MatchAt(lower(c), 1, HEADING_RE)
    IN  IF m.ok THEN int(c[m.caps[2][1]]) ELSE 0

_detect_heading_by_tag_only(tag) ==
    IF \E n \in 1..6 : HeadingNames[n] = tag.name
    THEN CHOOSE n \in 1..6 : HeadingNames[n] = tag.name
    ELSE 0

\* lines 246-259; None is 0
_detect_heading(tag) ==
    IF \E n \in 1..6 : HeadingNames[n] = tag.name
    THEN CHOOSE n \in 1..6 : HeadingNames[n] = tag.name
    ELSE LET hits == {i \in 1..Len(tag.class) : MatchAt(lower(tag.class[i]), 1, HEADING_RE).ok}
         IN  IF hits = {} THEN 0 ELSE ClassLevel(tag.class[LeastOr(hits, 0)])

\* lines 353-355
_normalize_text(text) == Strip(ReSub(<<Plus(ReSpace)>>, <<Txt(<<" ">>)>>, text))

\* lines 135-136: "<m:eqarr" in xml.lower()
EqArrRe == <<Lit(<<"<", "m", ":", "e", "q", "a", "r", "r">>)>>

\* line 138: r'<m:oMath\b' under IGNORECASE, on the lower-cased fragment
OMathRe == <<Lit(<<"<", "m", ":", "o", "m", "a", "t", "h">>), NotAhead(ReWord)>>

\* line 141: r'<m:m\b'
MatrixRe == <<Lit(<<"<", "m", ":", "m">>), NotAhead(ReWord)>>

\* line 138: len(re.findall(...))
omath_count(xml) == Cardinality(HitSet(lower(xml), OMathRe))

_detect_math_env_from_xml_matrix_first(xml) ==
    IF ReSearch(EqArrRe, lower(xml)) THEN "aligned"
    ELSE IF ReSearch(MatrixRe, lower(xml)) THEN "pmatrix"
    ELSE IF omath_count(xml) > 1 THEN "multiline"
    ELSE ""

\* lines 132-143
_detect_math_env_from_xml(xml) ==
    IF ReSearch(EqArrRe, lower(xml)) THEN "aligned"
    ELSE IF omath_count(xml) > 1 THEN "multiline"
    ELSE IF ReSearch(MatrixRe, lower(xml)) THEN "pmatrix"
    ELSE ""

\* lines 194-202, 266-276, 447-457: the node of a display placeholder
DisplayNode(dblocks, placeholder) ==
    LET xml == Get(dblocks, placeholder.data_id)
    IN  IF xml # <<>> THEN <<DisplayMath(xml, _detect_math_env_from_xml(xml))>>
        ELSE <<>>

\* lines 205-212, 377-380: the node of an inline placeholder
InlineNode(iblocks, placeholder) ==
    LET xml == Get(iblocks, placeholder.data_id)
    IN  IF xml # <<>> THEN <<InlineMath(xml)>> ELSE <<>>

\* lines 382-384, 392-394: the text of an element as one text node
ElementText(el) ==
    IF Strip(get_text(el)) # <<>>
    THEN <<[Text(get_text(el)) EXCEPT !.html = OuterHtml(el)]>>
    ELSE <<>>

RECURSIVE _extract_inline(_, _)

\* lines 364-394: one child of the loop of _extract_inline
InlineChild(child, iblocks) ==
    IF ~IsTag(child)
    THEN IF _normalize_text(child.text) # <<>>
         THEN <<Text(_normalize_text(child.text))>>
         ELSE <<>>
    ELSE IF child.name = "omml-inline" THEN InlineNode(iblocks, child)
    ELSE IF child.name \in _FORMATTING_TAGS THEN ElementText(child)
    ELSE IF _extract_inline(child, iblocks) # <<>>
         THEN _extract_inline(child, iblocks)
         ELSE ElementText(child)

\* lines 358-394
_extract_inline(parent, iblocks) ==
    Join([i \in 1..Len(parent.children) |->
             InlineChild(parent.children[i], iblocks)], <<>>)

\* lines 293-302 without the unwrapping of a single child
AsParagraph_always_wraps(para_children, html) ==
    IF para_children = <<>> THEN <<>>
    ELSE <<[Paragraph(para_children) EXCEPT !.html = html]>>

\* lines 283-288, 343-350: no node, the only child, or a paragraph node
AsParagraph(para_children, html) ==
    IF para_children = <<>> THEN <<>>
    ELSE IF Len(para_children) = 1 THEN para_children
    ELSE <<[Paragraph(para_children) EXCEPT !.html = html]>>

\* lines 262-302
_handle_paragraph(p_tag, dblocks, iblocks) ==
    IF Finds(p_tag, "omml-display")
    THEN DisplayNode(dblocks, find(p_tag, "omml-display"))
    ELSE IF _detect_heading(p_tag) # 0
    THEN <<Heading(_detect_heading(p_tag), get_text_strip(p_tag))>>
    ELSE AsParagraph(_extract_inline(p_tag, iblocks), OuterHtml(p_tag))

\* lines 328-341: one element of the loop of _handle_word_paragraph
WordRun(wt, iblocks) ==
    IF wt.name = "omml-inline" THEN InlineNode(iblocks, wt)
    ELSE IF Strip(get_text(wt)) # <<>> THEN <<Text(get_text(wt))>>
    ELSE <<>>

\* lines 305-350
_handle_word_paragraph(wp_tag, dblocks, iblocks) ==
    IF Finds(wp_tag, "omml-display")
    THEN DisplayNode(dblocks, find(wp_tag, "omml-display"))
    ELSE LET runs_ == find_all(wp_tag, {"w:t", "omml-inline"})
         IN  AsParagraph(Join([i \in 1..Len(runs_) |-> WordRun(runs_[i], iblocks)],
                              <<>>), <<>>)

\* lines 397-409
_handle_list(list_tag) ==
    LET items == SelectSeq(list_tag.children, LAMBDA c : IsTag(c) /\ c.name = "li")
    IN  <<[DocNode("list") EXCEPT
              !.children = [i \in 1..Len(items) |->
                               [Text(get_text_strip(items[i])) EXCEPT
                                   !.html = OuterHtml(items[i])]],
              !.list_ordered = (list_tag.name = "ol")]>>

\* lines 446-459: one paragraph of a cell
CellParagraph(p, dblocks, iblocks) ==
    IF Finds(p, "omml-display")
    THEN DisplayNode(dblocks, find(p, "omml-display"))
    ELSE _extract_inline(p, iblocks)

\* lines 434-461
_extract_cell_content(cell_tag, dblocks, iblocks) ==
    LET paragraphs == find_all(cell_tag, {"p"})
    IN  IF paragraphs # <<>>
        THEN Join([i \in 1..Len(paragraphs) |->
                      CellParagraph(paragraphs[i], dblocks, iblocks)], <<>>)
        ELSE _extract_inline(cell_tag, iblocks)

\* lines 421-426: the cells of one row
RowCells(tr, dblocks, iblocks) ==
    LET cells == find_all(tr, {"td", "th"})
    IN  [i \in 1..Len(cells) |->
            _extract_cell_content(cells[i], dblocks, iblocks)]

\* lines 412-431
_handle_table(table_tag, dblocks, iblocks) ==
    LET trs  == find_all(table_tag, {"tr"})
        rows == SelectSeq([i \in 1..Len(trs) |->
                              RowCells(trs[i], dblocks, iblocks)],
                          LAMBDA row_cells : row_cells # <<>>)
    IN  IF rows # <<>> THEN <<Table(rows)>> ELSE <<>>

\* line 183
SelectionMarkers == {<<"StartFragment">>, <<"EndFragment">>}

RECURSIVE _walk_elements(_, _, _)

\* lines 179-243 with the heading test moved before the table test
WalkChild_heading_first(child, dblocks, iblocks) ==
    IF ~IsTag(child)
    THEN IF /\ _normalize_text(child.text) # <<>>
            /\ _normalize_text(child.text) \notin SelectionMarkers
         THEN <<Text(_normalize_text(child.text))>>
         ELSE <<>>
    ELSE CASE child.name = "omml-display" -> DisplayNode(dblocks, child)
           [] child.name = "omml-inline" -> InlineNode(iblocks, child)
           [] _detect_heading(child) # 0 ->
                <<Heading(_detect_heading(child), get_text_strip(child))>>
           [] child.name = "table" -> _handle_table(child, dblocks, iblocks)
           [] child.name \in {"ul", "ol"} -> _handle_list(child)
           [] child.name = "p" -> _handle_paragraph(child, dblocks, iblocks)
           [] OTHER ->
                IF child.name = "w:p"
                THEN _handle_word_paragraph(child, dblocks, iblocks)
                ELSE _walk_elements(child, dblocks, iblocks)

\* lines 180-243: one child of the loop of _walk_elements
WalkChild(child, dblocks, iblocks) ==
    IF ~IsTag(child)
    THEN IF /\ _normalize_text(child.text) # <<>>
            /\ _normalize_text(child.text) \notin SelectionMarkers
         THEN <<Text(_normalize_text(child.text))>>
         ELSE <<>>
    ELSE CASE child.name = "omml-display" -> DisplayNode(dblocks, child)
           [] child.name = "omml-inline" -> InlineNode(iblocks, child)
           [] child.name = "table" -> _handle_table(child, dblocks, iblocks)
           [] child.name \in {"ul", "ol"} -> _handle_list(child)
           [] child.name = "p" -> _handle_paragraph(child, dblocks, iblocks)
           [] OTHER ->
                IF _detect_heading(child) # 0
                THEN <<Heading(_detect_heading(child), get_text_strip(child))>>
                ELSE IF child.name = "w:p"
                THEN _handle_word_paragraph(child, dblocks, iblocks)
                ELSE _walk_elements(child, dblocks, iblocks)

\* lines 172-243
_walk_elements(parent, dblocks, iblocks) ==
    Join([i \in 1..Len(parent.children) |->
             WalkChild(parent.children[i], dblocks, iblocks)], <<>>)

\* lines 150-167, from the document BeautifulSoup built on
parse_clipboard_html(body, dblocks, iblocks) == _walk_elements(body, dblocks, iblocks)

(***************************************************************************)
(* SpecParse: the walk over a drawn document.  The body holds one or two   *)
(* containers; inline content is put into them from left to right.         *)
(***************************************************************************)
MaxInline == 2

DisplayXml ==
    <<"<", "m", ":", "o", "M", "a", "t", "h", "P", "a", "r", "a", ">", "x",
      "<", "/", "m", ":", "o", "M", "a", "t", "h", "P", "a", "r", "a", ">">>

InlineXml ==
    <<"<", "m", ":", "o", "M", "a", "t", "h", ">", "y",
      "<", "/", "m", ":", "o", "M", "a", "t", "h", ">">>

Element(name, children) == Tag(name, <<>>, <<>>, children)

CellOf(children) == Element("table", <<Element("tr", <<Element("td", children)>>)>>)

Containers ==
    { Element("p", <<>>),
      Tag("p", << <<"M", "s", "o", "H", "e", "a", "d", "i", "n", "g", "2">> >>, <<>>, <<>>),
      Element("div", <<>>),
      CellOf(<<>>),
      CellOf(<<Element("p", <<>>)>>) }

Layouts == {<<c>> : c \in Containers} \cup (Containers \X Containers)

InlinePool ==
    { NavigableString(<<"Hello">>),
      NavigableString(<<" ">>),
      Comment(<<"StartFragment">>),
      Tag("omml-display", <<>>, <<"0">>, <<>>),
      Tag("omml-inline", <<>>, <<"1">>, <<>>),
      Element("b", <<NavigableString(<<"bold">>)>>) }

\* the element of a container that takes its content
RECURSIVE Put(_, _)
Put(el, child) ==
    IF \/ el.name \in {"table", "tr"}
       \/ el.name = "td" /\ el.children # <<>> /\ el.children[1].name = "p"
    THEN [el EXCEPT !.children[1] = Put(el.children[1], child)]
    ELSE [el EXCEPT !.children = Append(el.children, child)]

RECURSIVE Content(_)
Content(el) ==
    IF \/ el.name \in {"table", "tr"}
       \/ el.name = "td" /\ el.children # <<>> /\ el.children[1].name = "p"
    THEN Content(el.children[1])
    ELSE el.children

\* the container that is being filled is the last one with content
Filling ==
    GreatestOr({i \in 1..Len(soup.children) : Content(soup.children[i]) # <<>>}, 1)

InlineCount ==
    Len(Join([i \in 1..Len(soup.children) |-> Content(soup.children[i])], <<>>))

Blocks ==
    /\ display_blocks = [id \in {<<"0">>} |-> DisplayXml]
    /\ inline_blocks = [id \in {<<"1">>} |-> InlineXml]

ParseInit ==
    /\ soup \in {Element("body", layout) : layout \in Layouts}
    /\ Blocks
    /\ parsed = <<>>
    /\ prc = "build"
    /\ IdleExceptPs

\* one more piece of inline content, in the container being filled or in
\* the one after it
AddInline ==
    /\ prc = "build"
    /\ InlineCount < MaxInline
    /\ \E child \in InlinePool, at \in {Filling, Filling + 1} :
          /\ at <= Len(soup.children)
          /\ soup' = [soup EXCEPT !.children[at] = Put(soup.children[at], child)]
    /\ UNCHANGED <<display_blocks, inline_blocks, parsed, prc>>
    /\ UNCHANGED exceptPs

ParseDocument ==
    /\ prc = "build"
    /\ parsed' = parse_clipboard_html(soup, display_blocks, inline_blocks)
    /\ prc' = "parsed"
    /\ UNCHANGED <<soup, display_blocks, inline_blocks>>
    /\ UNCHANGED exceptPs

ParseNext == AddInline \/ ParseDocument

SpecParse == ParseInit /\ [][ParseNext]_vars

(***************************************************************************)
(* SpecHeading: the walk over a document of one styled paragraph           *)
(***************************************************************************)
HeadingPrefixes ==
    { <<"M", "s", "o", "H", "e", "a", "d", "i", "n", "g">>,
      <<"m", "s", "o", "h", "e", "a", "d", "i", "n", "g">>,
      <<"M", "S", "O", "H", "E", "A", "D", "I", "N", "G">> }

HeadingClasses == {prefix \o <<Digits[n + 1]>> : prefix \in HeadingPrefixes, n \in 1..6}

MsoNormal == <<"M", "s", "o", "N", "o", "r", "m", "a", "l">>

ClassLists == {<<c>> : c \in HeadingClasses} \cup {<<MsoNormal, c>> : c \in HeadingClasses}

HeadingTexts ==
    { <<"Introduction">>,
      <<"Results", " ", "and", "\n", "discussion">>,
      <<" ", "Introduction", "\n">> }

HeadingInit ==
    /\ soup \in {Element("body", <<Tag("p", classes, <<>>, <<NavigableString(t)>>)>>) :
                    classes \in ClassLists, t \in HeadingTexts}
    /\ Blocks
    /\ parsed = <<>>
    /\ prc = "build"
    /\ IdleExceptPs

SpecHeading == HeadingInit /\ [][ParseDocument]_vars

(***************************************************************************)
(* Claims on parse_clipboard_html                                          *)
(***************************************************************************)
Parsed == prc = "parsed"

\* the document is one paragraph element that carries a heading style class
\* and holds one text
StyledParagraph ==
    /\ Len(soup.children) = 1
    /\ soup.children[1].name = "p"
    /\ \E i \in 1..Len(soup.children[1].class) : soup.children[1].class[i] \in HeadingClasses
    /\ Len(soup.children[1].children) = 1
    /\ soup.children[1].children[1].kind = "string"

\* the level N of its style class and its text T
StyleClass ==
    soup.children[1].class[
        CHOOSE i \in 1..Len(soup.children[1].class) : soup.children[1].class[i] \in HeadingClasses]
StyleLevel == CHOOSE n \in 1..6 : Digits[n + 1] = StyleClass[Len(StyleClass)]
StyledText == soup.children[1].children[1].text

\* C12 as stated: a document of one paragraph element with the heading
\* style class of level N in 1..6, in any letter case, and text T yields
\* exactly one node, a Heading with level N and content T.
C12_HeadingWithContentT ==
    (Parsed /\ StyledParagraph) => parsed = <<Heading(StyleLevel, StyledText)>>

\* C12: a document of one paragraph element with the heading style class
\* of level N in 1..6, in any letter case, and text T yields exactly one
\* node, a Heading with level N whose content is T without its leading and
\* trailing white space.
C12_HeadingWithTrimmedContent ==
    (Parsed /\ StyledParagraph) => parsed = <<Heading(StyleLevel, Strip(StyledText))>>

C12_Witness ==
    /\ Parsed
    /\ StyledParagraph
    /\ StyleClass = <<"m", "s", "o", "h", "e", "a", "d", "i", "n", "g", "6">>
    /\ StyledText # Strip(StyledText)
    /\ parsed = <<Heading(6, <<"Introduction">>)>>

(***************************************************************************)
(* Claims on the subprocess runs of one convert_html request               *)
(***************************************************************************)
\* the math nodes of a tree in document order, each with whether it stands
\* in a table cell
RECURSIVE MathPlaces(_, _)
MathPlacesOf(node, in_cell) ==
    CASE node.type \in {"inline_math", "display_math"} ->
           <<[node |-> node, in_cell |-> in_cell]>>
      [] node.type = "paragraph" -> MathPlaces(node.children, in_cell)
      [] node.type = "table" -> MathPlaces(Join(Join(node.table_rows, <<>>), <<>>), TRUE)
      [] OTHER -> <<>>

MathPlaces(list, in_cell) ==
    IF list = <<>> THEN <<>>
    ELSE MathPlacesOf(Head(list), in_cell) \o MathPlaces(Tail(list), in_cell)

\* the subprocess runs the request has started when it returns
SubprocessStarts ==
    Fold(NodesLoop(nodes, runs), 1, Len(nodes),
         [latex_parts |-> <<>>, md_parts |-> <<>>, html_parts |-> <<>>,
          warnings |-> <<>>, calls |-> 0]).calls

\* what the run of math node k was converted to, and the form in which a
\* table cell holds it: trimmed, on one line
MathString(k) == _convert_math(MathPlaces(nodes, FALSE)[k].node, runs[k]).latex

OnOneLine(s) == Strip(ReSub(<<Plus(ReSpace)>>, <<Txt(<<" ">>)>>, s))

PlacedString(k) ==
    IF MathPlaces(nodes, FALSE)[k].in_cell THEN OnOneLine(MathString(k))
    ELSE MathString(k)

\* C13: during one convert_html request the converter subprocess is run
\* exactly once for each math node of the tree (top level, paragraph child
\* or table cell) and at no other time, and the one string a math node was
\* converted to is the one that stands in all three outputs.
C13_OneRunPerMathNode ==
    Done =>
        /\ SubprocessStarts = Len(MathPlaces(nodes, FALSE))
        /\ Len(runs) = SubprocessStarts
        /\ \A k \in 1..Len(runs) :
              LET placed == PlacedString(k)
              IN  placed # <<>> =>
                      /\ IsInfix(placed, Output.latex)
                      /\ IsInfix(EscapePipes(placed), Output.markdown)
                      /\ IsInfix(placed, Output.html)

C13_Witness ==
    /\ Done
    /\ SubprocessStarts = 2
    /\ Len(nodes) = 2
    /\ \A k \in 1..2 :
          /\ MathPlaces(nodes, FALSE)[k].in_cell
          /\ Contains(MathString(k), "\n")
          /\ PlacedString(k) # MathString(k)

(***************************************************************************)
(* parser.py: _extract_omml_blocks.  The two patterns are compiled with    *)
(* IGNORECASE: they are written in lower case and matched against the      *)
(* lower-cased markup, and the text of a match is taken from the markup.   *)
(***************************************************************************)
\* lines 84-87: r'(<m:oMathPara\b[^>]*>.*?</m:oMathPara>)'
_OMATHPARA_RE ==
    <<Lit(<<"<", "m", ":", "o", "m", "a", "t", "h", "p", "a", "r", "a">>), NotAhead(ReWord), Star(ClassNot({">"})), L(">"), Lazy,
      Lit(<<"<", "/", "m", ":", "o", "m", "a", "t", "h", "p", "a", "r", "a", ">">>)>>

\* lines 90-93: r'(<m:oMath\b[^>]*>.*?</m:oMath>)'
_OMATH_RE ==
    <<Lit(<<"<", "m", ":", "o", "m", "a", "t", "h">>), NotAhead(ReWord), Star(ClassNot({">"})), L(">"), Lazy,
      Lit(<<"<", "/", "m", ":", "o", "m", "a", "t", "h", ">">>)>>

\* str() of a counter
RECURSIVE str(_)
str(n) == IF n < 10 THEN <<Digits[n + 1]>> ELSE str(n \div 10) \o <<Digits[(n % 10) + 1]>>

\* lines 96-97
_DISPLAY_PLACEHOLDER(id) ==
    <<"<", "o", "m", "m", "l", "-", "d", "i", "s", "p", "l", "a", "y", " ", "d", "a", "t", "a", "-", "i", "d", "=", "\"">> \o id \o <<"\"", ">", "<", "/", "o", "m", "m", "l", "-", "d", "i", "s", "p", "l", "a", "y", ">">>

_INLINE_PLACEHOLDER(id) ==
    <<"<", "o", "m", "m", "l", "-", "i", "n", "l", "i", "n", "e", " ", "d", "a", "t", "a", "-", "i", "d", "=", "\"">> \o id \o <<"\"", ">", "<", "/", "o", "m", "m", "l", "-", "i", "n", "l", "i", "n", "e", ">">>

Placeholder(kind, id) ==
    IF kind = "display" THEN _DISPLAY_PLACEHOLDER(id) ELSE _INLINE_PLACEHOLDER(id)

\* lines 110-122: replace_display / replace_inline called by re.sub for the
\* matches from hits[k] on; pos is where the text not yet copied starts, out
\* the text built so far, blocks the entries written so far
RECURSIVE Replaced(_, _, _, _, _)
Replaced(html, kind, hits, k, st) ==
    IF k > Len(hits)
    THEN [st EXCEPT !.out = @ \o SubSeq(html, st.pos, Len(html))]
    ELSE IF hits[k].at < st.pos
    THEN Replaced(html, kind, hits, k + 1, st)
    ELSE Replaced(html, kind, hits, k + 1,
             [pos     |-> hits[k].m.next,
              out     |-> st.out \o SubSeq(html, st.pos, hits[k].at - 1)
                              \o Placeholder(kind, str(st.counter)),
              blocks  |-> Append(st.blocks,
                                 <<str(st.counter), SubSeq(html, hits[k].at, hits[k].m.next - 1)>>),
              counter |-> st.counter + 1])

\* lines 125, 127: one pattern.sub(replace, html)
ExtractPass(html, kind, pat, counter) ==
    Replaced(html, kind, HitsInOrder(HitSet(lower(html), pat)), 1,
             [pos |-> 1, out |-> <<>>, blocks |-> <<>>, counter |-> counter])

\* a dict from the assignments made to it, in order
Dict(entries) ==
    [id \in {entries[i][1] : i \in 1..Len(entries)} |->
        entries[GreatestOr({i \in 1..Len(entries) : entries[i][1] = id}, 0)][2]]

\* lines 99-129
_extract_omml_blocks(html) ==
    LET d == ExtractPass(html, "display", _OMATHPARA_RE, 0)
        i == ExtractPass(d.out, "inline", _OMATH_RE, d.counter)
    IN  [html |-> i.out, display_blocks |-> Dict(d.blocks), inline_blocks |-> Dict(i.blocks)]

(***************************************************************************)
(* SpecIsolate: _extract_omml_blocks on markup assembled from whole pieces *)
(***************************************************************************)
MaxMarkupPieces == 3

MarkupPieces ==
    { <<"<", "m", ":", "o", "M", "a", "t", "h", "P", "a", "r", "a", ">", "<", "m", ":", "o", "M", "a", "t", "h", ">", "x", "<", "/", "m", ":", "o", "M", "a", "t", "h", ">", "<", "/", "m", ":", "o", "M", "a", "t", "h", "P", "a", "r", "a", ">">>,
      <<"<", "m", ":", "o", "M", "a", "t", "h", ">", "y", "<", "/", "m", ":", "o", "M", "a", "t", "h", ">">>,
      <<"<", "M", ":", "O", "M", "A", "T", "H", ">", "z", "<", "/", "M", ":", "O", "M", "A", "T", "H", ">">>,
      <<"<", "m", ":", "o", "M", "a", "t", "h", "/", ">">>,
      <<"a", " ">> }

IsolateInit ==
    /\ markup = <<>>
    /\ mpieces = 0
    /\ isolated = <<>>
    /\ ipc = "build"
    /\ IdleExceptIs

AddMarkupPiece ==
    /\ ipc = "build"
    /\ mpieces < MaxMarkupPieces
    /\ \E piece \in MarkupPieces : markup' = markup \o piece
    /\ mpieces' = mpieces + 1
    /\ UNCHANGED <<isolated, ipc>>
    /\ UNCHANGED exceptIs

Isolate ==
    /\ ipc = "build"
    /\ isolated' = _extract_omml_blocks(markup)
    /\ ipc' = "isolated"
    /\ UNCHANGED <<markup, mpieces>>
    /\ UNCHANGED exceptIs

IsolateNext == AddMarkupPiece \/ Isolate

SpecIsolate == IsolateInit /\ [][IsolateNext]_vars

(***************************************************************************)
(* Claims on _extract_omml_blocks                                          *)
(***************************************************************************)
\* the placeholder elements of a markup, whatever id they carry
DisplayPlaceholderRe ==
    <<Lit(<<"<", "o", "m", "m", "l", "-", "d", "i", "s", "p", "l", "a", "y", " ", "d", "a", "t", "a", "-", "i", "d", "=", "\"">>), Plus(ReDigit), Lit(<<"\"", ">", "<", "/", "o", "m", "m", "l", "-", "d", "i", "s", "p", "l", "a", "y", ">">>)>>

InlinePlaceholderRe ==
    <<Lit(<<"<", "o", "m", "m", "l", "-", "i", "n", "l", "i", "n", "e", " ", "d", "a", "t", "a", "-", "i", "d", "=", "\"">>), Plus(ReDigit), Lit(<<"\"", ">", "<", "/", "o", "m", "m", "l", "-", "i", "n", "l", "i", "n", "e", ">">>)>>

\* where the placeholders of html are, with the id each carries and the
\* fragment the tables store under it
PlaceholdersOf(html, re, table) ==
    {[at |-> h.at, next |-> h.m.next,
      id |-> SubSeq(html, h.m.caps[2][1], h.m.caps[2][2] - 1),
      fragment |-> Get(table, SubSeq(html, h.m.caps[2][1], h.m.caps[2][2] - 1))] :
        h \in HitSet(html, re)}

PlaceholdersIn(iso) ==
    PlaceholdersOf(iso.html, DisplayPlaceholderRe, iso.display_blocks)
        \cup PlaceholdersOf(iso.html, InlinePlaceholderRe, iso.inline_blocks)

\* html with each of its placeholders replaced by its fragment
RECURSIVE Substituted(_, _, _)
Substituted(html, places, from) ==
    LET rest == {p \in places : p.at >= from}
    IN  IF rest = {} THEN SubSeq(html, from, Len(html))
        ELSE LET p == CHOOSE q \in rest : \A r \in rest : q.at <= r.at
             IN  SubSeq(html, from, p.at - 1) \o p.fragment
                     \o Substituted(html, places, p.next)

Restored(iso) == Substituted(iso.html, PlaceholdersIn(iso), 1)

\* part occurs in whole
Occurs(part, whole) ==
    \E i \in 1..(Len(whole) - Len(part) + 1) : SubSeq(whole, i, i + Len(part) - 1) = part

TableValues(iso) ==
    {iso.display_blocks[id] : id \in DOMAIN iso.display_blocks}
        \cup {iso.inline_blocks[id] : id \in DOMAIN iso.inline_blocks}

\* C14: fragment isolation is lossless: no id is in both tables and no two
\* placeholders of the cleaned markup carry the same id, every table value
\* is text of the markup that was passed in, and the cleaned markup with
\* each placeholder replaced by the fragment stored under its id is the
\* markup that was passed in
C14_IsolationLossless ==
    ipc = "isolated" =>
        /\ DOMAIN isolated.display_blocks \cap DOMAIN isolated.inline_blocks = {}
        /\ \A p, q \in PlaceholdersIn(isolated) : p.id = q.id => p = q
        /\ \A value \in TableValues(isolated) : Occurs(value, markup)
        /\ Restored(isolated) = markup

(***************************************************************************)
(* SpecClassify: the walk over a document whose two math fragments are     *)
(* drawn from sequences of OMML opening tags                               *)
(***************************************************************************)
MaxTags == 3

OmmlTags ==
    { <<"<", "m", ":", "o", "M", "a", "t", "h", "P", "a", "r", "a", ">">>, <<"<", "m", ":", "o", "M", "a", "t", "h", ">">>, <<"<", "M", ":", "O", "M", "A", "T", "H", ">">>, <<"<", "m", ":", "e", "q", "A", "r", "r", ">">>, <<"<", "M", ":", "E", "Q", "A", "R", "R", ">">>,
      <<"<", "m", ":", "m", ">">>, <<"<", "M", ":", "M", ">">>, <<"<", "m", ":", "m", "r", ">">>, <<"<", "m", ":", "r", ">">> }

RECURSIVE TagRuns(_)
TagRuns(n) ==
    IF n = 0 THEN {<<>>}
    ELSE TagRuns(n - 1) \cup {xml \o tag : xml \in TagRuns(n - 1), tag \in OmmlTags}

Fragments == TagRuns(MaxTags) \ {<<>>}

DisplayPlaceholder == Tag("omml-display", <<>>, <<"0">>, <<>>)
InlinePlaceholder == Tag("omml-inline", <<>>, <<"1">>, <<>>)

ClassifyLayouts ==
    { <<DisplayPlaceholder, Element("p", <<NavigableString(<<"Hello">>), InlinePlaceholder>>)>>,
      <<CellOf(<<Element("p", <<DisplayPlaceholder>>), Element("p", <<InlinePlaceholder>>)>>)>> }

ClassifyInit ==
    /\ soup \in {Element("body", layout) : layout \in ClassifyLayouts}
    /\ \E xml \in Fragments :
          /\ display_blocks = [id \in {<<"0">>} |-> xml]
          /\ inline_blocks = [id \in {<<"1">>} |-> xml]
    /\ parsed = <<>>
    /\ prc = "build"
    /\ IdleExceptPs

SpecClassify == ClassifyInit /\ [][ParseDocument]_vars

\* the names of the opening tags of a fragment, in lower case, by position
OpeningTags(xml) == {i \in 1..(Len(xml) - 1) : xml[i] = "<" /\ xml[i + 1] # "/"}

TagName(xml, i) ==
    lower(SubSeq(xml, i + 1,
                 LeastOr({j \in (i + 1)..Len(xml) : xml[j] \in {">", " ", "/"}}, Len(xml) + 1) - 1))

Constructs(xml, name) == Cardinality({i \in OpeningTags(xml) : TagName(xml, i) = name})

\* the layout by the fixed priority: array, several equation roots, matrix
LayoutOf(xml) ==
    IF Constructs(xml, <<"m", ":", "e", "q", "a", "r", "r">>) > 0 THEN "aligned"
    ELSE IF Constructs(xml, <<"m", ":", "o", "m", "a", "t", "h">>) > 1 THEN "multiline"
    ELSE IF Constructs(xml, <<"m", ":", "m">>) > 0 THEN "pmatrix"
    ELSE ""

\* C15: every DisplayMath node carries the layout its fragment has by the
\* priority array > several equation roots > matrix > none, whatever the
\* case of the tags, and every InlineMath node carries the empty string
C15_LayoutByPriority ==
    Parsed =>
        \A k \in 1..Len(MathNodes(parsed)) :
            LET node == MathNodes(parsed)[k]
            IN  /\ node.math_env \in {"aligned", "multiline", "pmatrix", ""}
                /\ node.type = "display_math" => node.math_env = LayoutOf(node.omml_xml)
                /\ node.type = "inline_math" => node.math_env = ""

\* a fragment with a matrix and two equation roots was classified, as a
\* display node (multiline) and as an inline node
C15_Witness ==
    /\ Parsed
    /\ \E k, j \in 1..Len(MathNodes(parsed)) :
          /\ MathNodes(parsed)[k].type = "display_math"
          /\ MathNodes(parsed)[j].type = "inline_math"
          /\ MathNodes(parsed)[k].math_env = "multiline"
          /\ Constructs(MathNodes(parsed)[k].omml_xml, <<"m", ":", "m">>) > 0
          /\ Constructs(MathNodes(parsed)[j].omml_xml, <<"m", ":", "o", "m", "a", "t", "h">>) > 1

(***************************************************************************)
(* Claims on the paragraph and cell handlers                               *)
(***************************************************************************)
\* every node of a tree: the nodes of the list, their children and the
\* nodes of their table cells
RECURSIVE TreeNodes(_)
TreeNodes(list) ==
    IF list = <<>> THEN {}
    ELSE {Head(list)}
             \cup TreeNodes(Head(list).children)
             \cup TreeNodes(Join(Join(Head(list).table_rows, <<>>), <<>>))
             \cup TreeNodes(Tail(list))

\* the document is one element, with this name and no style class
OneElement(name) ==
    /\ Len(soup.children) = 1
    /\ soup.children[1].name = name
    /\ soup.children[1].class = <<>>

IsDisplayPlaceholder(el) == IsTag(el) /\ el.name = "omml-display"

HoldsDisplayPlaceholder(children) ==
    \E i \in 1..Len(children) : IsDisplayPlaceholder(children[i])

\* an inline child has its node in the extracted tree: a text run or a
\* formatting span a node with its text, an inline placeholder an InlineMath
Emitted(child) ==
    CASE child.kind = "string" /\ Strip(child.text) # <<>> ->
           \E node \in TreeNodes(parsed) : node.content = child.text
      [] IsTag(child) /\ child.name = "omml-inline" ->
           \E node \in TreeNodes(parsed) :
               node.type = "inline_math" /\ node.omml_xml = Get(inline_blocks, child.data_id)
      [] IsTag(child) /\ child.name \in _FORMATTING_TAGS ->
           \E node \in TreeNodes(parsed) : node.content = get_text(child)
      [] OTHER -> TRUE

\* C18: the inline children of a paragraph that also holds a display
\* placeholder (text runs, formatting spans, inline placeholders) are
\* emitted in the extracted tree
C18_InlineChildrenKept ==
    (Parsed /\ OneElement("p") /\ HoldsDisplayPlaceholder(soup.children[1].children)) =>
        \A i \in 1..Len(soup.children[1].children) : Emitted(soup.children[1].children[i])

\* the one cell of a document that is one table
TheCell == soup.children[1].children[1].children[1]

CellHoldsDisplayPlaceholder ==
    \/ HoldsDisplayPlaceholder(TheCell.children)
    \/ /\ TheCell.children # <<>>
       /\ TheCell.children[1].name = "p"
       /\ HoldsDisplayPlaceholder(TheCell.children[1].children)

\* C19: a cell that holds a display placeholder, directly or in a paragraph,
\* contributes one DisplayMath node and nothing else
C19_CellDisplayOnly ==
    (Parsed /\ OneElement("table") /\ CellHoldsDisplayPlaceholder) =>
        /\ Len(parsed) = 1
        /\ parsed[1].type = "table"
        /\ parsed[1].table_rows = << << <<DisplayMath(DisplayXml, "")>> >> >>

\* C20: no node of the extracted tree has a selection marker as content
C20_NoSelectionMarkers ==
    Parsed => \A node \in TreeNodes(parsed) : node.content \notin SelectionMarkers

(***************************************************************************)
(* to_clipboard.py: _make_cf_html.  A str is a sequence of runs of one     *)
(* code point, bytes a sequence of runs of one byte value, so that the     *)
(* length of a long fragment is a number and not a sequence of that        *)
(* length.                                                                 *)
(***************************************************************************)
\* the characters of code 32 to 126, in order (the grave accent by name)
PrintableAscii ==
    <<" ", "!", "\"", "#", "$", "%", "&", "'", "(", ")", "*", "+",
      ",", "-", ".", "/", "0", "1", "2", "3", "4", "5", "6", "7",
      "8", "9", ":", ";", "<", "=", ">", "?", "@", "A", "B", "C",
      "D", "E", "F", "G", "H", "I", "J", "K", "L", "M", "N", "O",
      "P", "Q", "R", "S", "T", "U", "V", "W", "X", "Y", "Z", "[",
      "\\", "]", "^", "_", "U+0060", "a", "b", "c", "d", "e", "f", "g",
      "h", "i", "j", "k", "l", "m", "n", "o", "p", "q", "r", "s",
      "t", "u", "v", "w", "x", "y", "z", "{", "|", "}", "~">>

\* ord() of a character of the header and of the two tags
ord(ch) ==
    IF ch = "\r" THEN 13
    ELSE IF ch = "\n" THEN 10
    ELSE 31 + (CHOOSE i \in 1..Len(PrintableAscii) : PrintableAscii[i] = ch)

\* a str literal
StrOf(chars) == [i \in 1..Len(chars) |-> [c |-> ord(chars[i]), n |-> 1]]

\* a bytes literal
BytesOf(chars) == [i \in 1..Len(chars) |-> [b |-> ord(chars[i]), n |-> 1]]

\* the UTF-8 encoding of one code point
Utf8(c) ==
    IF c < 128 THEN <<c>>
    ELSE IF c < 2048 THEN <<192 + (c \div 64), 128 + (c % 64)>>
    ELSE IF c < 65536
    THEN <<224 + (c \div 4096), 128 + ((c \div 64) % 64), 128 + (c % 64)>>
    ELSE <<240 + (c \div 262144), 128 + ((c \div 4096) % 64),
           128 + ((c \div 64) % 64), 128 + (c % 64)>>

RECURSIVE Repeated(_, _)
Repeated(unit, n) == IF n = 0 THEN <<>> ELSE unit \o Repeated(unit, n - 1)

\* str.encode("utf-8") of one run: a run of a one-byte code point is a run
\* of that byte
EncodeRun(r) ==
    IF Len(Utf8(r.c)) = 1 THEN <<[b |-> r.c, n |-> r.n]>>
    ELSE Repeated([i \in 1..Len(Utf8(r.c)) |-> [b |-> Utf8(r.c)[i], n |-> 1]], r.n)

\* lines 153, 155, 163: str.encode("utf-8")
encode(text) == Join([i \in 1..Len(text) |-> EncodeRun(text[i])], <<>>)

\* len() of bytes: the lengths of the runs, summed by halves
RECURSIVE len(_)
len(bytes) ==
    IF bytes = <<>> THEN 0
    ELSE IF Len(bytes) = 1 THEN bytes[1].n
    ELSE len(SubSeq(bytes, 1, Len(bytes) \div 2))
             + len(SubSeq(bytes, (Len(bytes) \div 2) + 1, Len(bytes)))

\* format(n, "09d"): the decimal digits, zero-padded to at least 9
Format09d(n) ==
    IF Len(str(n)) < 9 THEN [i \in 1..(9 - Len(str(n))) |-> "0"] \o str(n) ELSE str(n)

\* lines 137-143
_CF_HTML_HEADER_TEMPLATE(sh, eh, sf, ef) ==
    StrOf(<<"V", "e", "r", "s", "i", "o", "n", ":", "0", ".", "9", "\r", "\n">>
          \o <<"S", "t", "a", "r", "t", "H", "T", "M", "L", ":">> \o Format09d(sh) \o <<"\r", "\n">>
          \o <<"E", "n", "d", "H", "T", "M", "L", ":">> \o Format09d(eh) \o <<"\r", "\n">>
          \o <<"S", "t", "a", "r", "t", "F", "r", "a", "g", "m", "e", "n", "t", ":">> \o Format09d(sf) \o <<"\r", "\n">>
          \o <<"E", "n", "d", "F", "r", "a", "g", "m", "e", "n", "t", ":">> \o Format09d(ef) \o <<"\r", "\n">>)

\* lines 145-146
_OPEN_TAG == BytesOf(<<"<", "h", "t", "m", "l", ">", "<", "b", "o", "d", "y", ">", "<", "!", "-", "-", "S", "t", "a", "r", "t", "F", "r", "a", "g", "m", "e", "n", "t", "-", "-", ">">>)
_CLOSE_TAG == BytesOf(<<"<", "!", "-", "-", "E", "n", "d", "F", "r", "a", "g", "m", "e", "n", "t", "-", "-", ">", "<", "/", "b", "o", "d", "y", ">", "<", "/", "h", "t", "m", "l", ">">>)

\* lines 152-153
header_len == len(encode(_CF_HTML_HEADER_TEMPLATE(0, 0, 0, 0)))

\* lines 149-163
_make_cf_html(text) ==
    LET frag_bytes == encode(text)
        sh == header_len
        sf == sh + len(_OPEN_TAG)
        ef == sf + len(frag_bytes)
        eh == ef + len(_CLOSE_TAG)
    IN  encode(_CF_HTML_HEADER_TEMPLATE(sh, eh, sf, ef))
            \o _OPEN_TAG \o frag_bytes \o _CLOSE_TAG

(***************************************************************************)
(* SpecCfHtml: _make_cf_html on fragments assembled from runs              *)
(***************************************************************************)
MaxRuns == 3

\* a run of this many letters leaves room for one more one-byte character
\* before the blob is 10^9 bytes long
LongRun == 999999833

\* a, <, e acute (2 bytes), the euro sign (3 bytes), an emoji (4 bytes), and
\* the long run of a
FragmentRuns ==
    { [c |-> 97, n |-> 1], [c |-> 60, n |-> 1], [c |-> 233, n |-> 1],
      [c |-> 8364, n |-> 1], [c |-> 128512, n |-> 1], [c |-> 97, n |-> LongRun] }

RECURSIVE Chars(_)
Chars(text) == IF text = <<>> THEN 0 ELSE Head(text).n + Chars(Tail(text))

CfHtmlInit ==
    /\ fragment = <<>>
    /\ fruns = 0
    /\ blob = <<>>
    /\ fpc = "build"
    /\ IdleExceptCf

AddRun ==
    /\ fpc = "build"
    /\ fruns < MaxRuns
    /\ \E r \in FragmentRuns :
          /\ Chars(fragment) + r.n <= LongRun + MaxRuns
          /\ fragment' = Append(fragment, r)
    /\ fruns' = fruns + 1
    /\ UNCHANGED <<blob, fpc>>
    /\ UNCHANGED exceptCf

MakeCfHtml ==
    /\ fpc = "build"
    /\ blob' = _make_cf_html(fragment)
    /\ fpc' = "made"
    /\ UNCHANGED <<fragment, fruns>>
    /\ UNCHANGED exceptCf

CfHtmlNext == AddRun \/ MakeCfHtml

SpecCfHtml == CfHtmlInit /\ [][CfHtmlNext]_vars

(***************************************************************************)
(* Claims on _make_cf_html                                                 *)
(***************************************************************************)
\* bytes[from:to], positions counted from 0
RECURSIVE BytesFromTo(_, _, _)
BytesFromTo(bytes, from, to) ==
    IF bytes = <<>> \/ to <= 0 THEN <<>>
    ELSE IF Len(bytes) = 1
    THEN LET lo == IF from > 0 THEN from ELSE 0
             hi == IF to < bytes[1].n THEN to ELSE bytes[1].n
         IN  IF lo < hi THEN <<[b |-> bytes[1].b, n |-> hi - lo]>> ELSE <<>>
    ELSE LET left == SubSeq(bytes, 1, Len(bytes) \div 2)
             right == SubSeq(bytes, (Len(bytes) \div 2) + 1, Len(bytes))
         IN  BytesFromTo(left, from, to)
                 \o BytesFromTo(right, from - len(left), to - len(left))

\* the same bytes with neighbouring runs of one value merged
MergedAtSeam(left, right) ==
    IF left # <<>> /\ right # <<>> /\ left[Len(left)].b = right[1].b
    THEN SubSeq(left, 1, Len(left) - 1)
             \o <<[b |-> right[1].b, n |-> left[Len(left)].n + right[1].n]>>
             \o Tail(right)
    ELSE left \o right

RECURSIVE Merged(_)
Merged(bytes) ==
    IF Len(bytes) < 2 THEN bytes
    ELSE MergedAtSeam(Merged(SubSeq(bytes, 1, Len(bytes) \div 2)),
                      Merged(SubSeq(bytes, (Len(bytes) \div 2) + 1, Len(bytes))))

\* the byte values of a short piece, one by one
Flat(bytes) == Join([i \in 1..Len(bytes) |-> [k \in 1..bytes[i].n |-> bytes[i].b]], <<>>)

\* the start of the blob, long enough to hold the header and <html>
BlobHead == Flat(BytesFromTo(blob, 0, 120))

\* where part first occurs in head, as a position counted from 0
FirstAt(head, part) ==
    LeastOr({i \in 1..(Len(head) - Len(part) + 1) :
                 SubSeq(head, i, i + Len(part) - 1) = part}, 0) - 1

\* the digits the header line of this name carries: up to the carriage return
OffsetDigits(head, name) ==
    LET from == FirstAt(head, Flat(BytesOf(name))) + Len(name) + 1
    IN  SubSeq(head, from,
               LeastOr({j \in from..Len(head) : head[j] = 13}, from) - 1)

RECURSIVE Number(_)
Number(digits) ==
    IF digits = <<>> THEN 0
    ELSE 10 * Number(SubSeq(digits, 1, Len(digits) - 1)) + (digits[Len(digits)] - 48)

OffsetNames == {<<"S", "t", "a", "r", "t", "H", "T", "M", "L", ":">>, <<"E", "n", "d", "H", "T", "M", "L", ":">>, <<"S", "t", "a", "r", "t", "F", "r", "a", "g", "m", "e", "n", "t", ":">>, <<"E", "n", "d", "F", "r", "a", "g", "m", "e", "n", "t", ":">>}

\* the four offsets as the header of the blob states them
HeaderOf(head) ==
    [name \in OffsetNames |->
        [digits |-> Len(OffsetDigits(head, name)), at |-> Number(OffsetDigits(head, name))]]

\* C16: in the blob StartHTML is the byte position of <html>, the bytes
\* from StartFragment to EndFragment are the UTF-8 encoding of the
\* fragment, EndHTML is the length of the blob, the header length the
\* offsets were computed with is the length of the header written, and each
\* offset is printed with 9 digits
C16_OffsetsAreBytePositions ==
    fpc = "made" =>
        LET head == BlobHead
            html_at == FirstAt(head, Flat(BytesOf(<<"<", "h", "t", "m", "l", ">">>)))
            header == HeaderOf(head)
        IN  /\ header[<<"S", "t", "a", "r", "t", "H", "T", "M", "L", ":">>].at = html_at
            /\ Merged(BytesFromTo(blob, header[<<"S", "t", "a", "r", "t", "F", "r", "a", "g", "m", "e", "n", "t", ":">>].at, header[<<"E", "n", "d", "F", "r", "a", "g", "m", "e", "n", "t", ":">>].at))
                   = Merged(encode(fragment))
            /\ header[<<"E", "n", "d", "H", "T", "M", "L", ":">>].at = len(blob)
            /\ header_len = html_at
            /\ \A name \in OffsetNames : header[name].digits = 9

(***************************************************************************)
(* SpecClipboard: one operation that opens the clipboard, while another    *)
(* process may have it open.  win32clipboard.OpenClipboard raises when the *)
(* clipboard is open elsewhere.                                            *)
(***************************************************************************)
\* clipboard.py line 23: retries: int = 5
retries == 5

Readers == {"read_clipboard_html", "read_clipboard_debug"}
Callers == Readers \cup {"convert_to_clipboard"}

ClipboardInit ==
    /\ caller \in Callers
    /\ held_by \in {"nobody", "other"}
    /\ available \in BOOLEAN
    /\ attempts = 0
    /\ outcome = ""
    /\ cpc = "open"
    /\ IdleExceptCb

\* clipboard.py lines 25-32: one round of the loop of _open_clipboard, up
\* to the return, the raise or the sleep
_open_clipboard ==
    /\ cpc = "open"
    /\ caller \in Readers
    /\ attempts' = attempts + 1
    /\ IF held_by = "nobody"
       THEN held_by' = "us" /\ cpc' = "use" /\ UNCHANGED outcome
       ELSE IF attempts = retries - 1
       THEN outcome' = "raised" /\ cpc' = "done" /\ UNCHANGED held_by
       ELSE cpc' = "sleep" /\ UNCHANGED <<held_by, outcome>>
    /\ UNCHANGED <<caller, available>>
    /\ UNCHANGED exceptCb

\* clipboard.py line 32: time.sleep(delay), then the next round
Sleep ==
    /\ cpc = "sleep"
    /\ cpc' = "open"
    /\ UNCHANGED <<caller, held_by, available, attempts, outcome>>
    /\ UNCHANGED exceptCb

\* to_clipboard.py line 216: win32clipboard.OpenClipboard()
OpenClipboard ==
    /\ cpc = "open"
    /\ caller = "convert_to_clipboard"
    /\ attempts' = attempts + 1
    /\ IF held_by = "nobody"
       THEN held_by' = "us" /\ cpc' = "use" /\ UNCHANGED outcome
       ELSE outcome' = "raised" /\ cpc' = "done" /\ UNCHANGED held_by
    /\ UNCHANGED <<caller, available>>
    /\ UNCHANGED exceptCb

\* clipboard.py lines 97-115: the payload or None, then CloseClipboard
read_clipboard_html ==
    /\ cpc = "use"
    /\ caller = "read_clipboard_html"
    /\ outcome' = IF available THEN "html" ELSE "None"
    /\ held_by' = "nobody"
    /\ cpc' = "done"
    /\ UNCHANGED <<caller, available, attempts>>
    /\ UNCHANGED exceptCb

\* clipboard.py lines 38-87: the formats and has_html, then CloseClipboard
read_clipboard_debug ==
    /\ cpc = "use"
    /\ caller = "read_clipboard_debug"
    /\ outcome' = IF available THEN "has_html" ELSE "no_html"
    /\ held_by' = "nobody"
    /\ cpc' = "done"
    /\ UNCHANGED <<caller, available, attempts>>
    /\ UNCHANGED exceptCb

\* to_clipboard.py lines 217-223: EmptyClipboard, SetClipboardData, then
\* CloseClipboard
convert_to_clipboard ==
    /\ cpc = "use"
    /\ caller = "convert_to_clipboard"
    /\ available' = TRUE
    /\ outcome' = "formats_written"
    /\ held_by' = "nobody"
    /\ cpc' = "done"
    /\ UNCHANGED <<caller, attempts>>
    /\ UNCHANGED exceptCb

\* another process opens the clipboard
OtherOpens ==
    /\ cpc \in {"open", "sleep"}
    /\ held_by = "nobody"
    /\ held_by' = "other"
    /\ UNCHANGED <<caller, available, attempts, outcome, cpc>>
    /\ UNCHANGED exceptCb

\* and closes it, having copied HTML or something else to it, or nothing
OtherCloses ==
    /\ cpc \in {"open", "sleep"}
    /\ held_by = "other"
    /\ held_by' = "nobody"
    /\ available' \in BOOLEAN
    /\ UNCHANGED <<caller, attempts, outcome, cpc>>
    /\ UNCHANGED exceptCb

ClipboardNext ==
    \/ _open_clipboard
    \/ Sleep
    \/ OpenClipboard
    \/ read_clipboard_html
    \/ read_clipboard_debug
    \/ convert_to_clipboard
    \/ OtherOpens
    \/ OtherCloses

SpecClipboard == ClipboardInit /\ [][ClipboardNext]_vars

\* C17: whichever operation opens the clipboard, a failed open is retried:
\* at most 5 attempts are made, and a failure is raised to the caller only
\* when the fifth attempt failed
C17_RaisedOnlyAfterRetries ==
    /\ attempts <= retries
    /\ outcome = "raised" => attempts = retries

\* the same for the two reading operations alone
C17_ReadersRetry ==
    caller \in Readers => C17_RaisedOnlyAfterRetries

(***************************************************************************)
(* SpecLevel: the walk over a document of one heading, written with a      *)
(* native heading tag or with a heading style class of any digit           *)
(***************************************************************************)
AnyDigitClasses ==
    {prefix \o <<Digits[n]>> : prefix \in HeadingPrefixes, n \in 1..Len(Digits)}

StyledNames == {"p", "div"}

LevelDocuments ==
    {Tag(name, <<c>>, <<>>, <<NavigableString(t)>>) :
        name \in StyledNames, c \in AnyDigitClasses, t \in HeadingTexts}
    \cup {Element(HeadingNames[n], <<NavigableString(t)>>) :
            n \in 1..Len(HeadingNames), t \in HeadingTexts}

LevelInit ==
    /\ soup \in {Element("body", <<el>>) : el \in LevelDocuments}
    /\ Blocks
    /\ parsed = <<>>
    /\ prc = "build"
    /\ IdleExceptPs

SpecLevel == LevelInit /\ [][ParseDocument]_vars

HeadingNodes == {node \in TreeNodes(parsed) : node.type = "heading"}

\* C21: every Heading node produced by structure extraction, from a native
\* heading tag or from a heading style class with any digit suffix, has a
\* level in 1..6.
C21_HeadingLevelInRange ==
    Parsed => \A node \in HeadingNodes : node.level \in 1..6

(***************************************************************************)
(* SpecParagraph: the walk over a document of one paragraph, an HTML       *)
(* paragraph or a raw Word paragraph, filled child by child                *)
(***************************************************************************)
MaxParaChildren == 3

WordRunOf(t) == Element("w:r", <<Element("w:t", <<NavigableString(t)>>)>>)

\* an inline placeholder whose id is in no table
UnknownInline == Tag("omml-inline", <<>>, <<"9">>, <<>>)

ParaPool ==
    InlinePool \cup {WordRunOf(<<"Hello">>), WordRunOf(<<" ">>), UnknownInline}

ParagraphNames == {"p", "w:p"}

ParagraphInit ==
    /\ soup \in {Element("body", <<Element(name, <<>>)>>) : name \in ParagraphNames}
    /\ Blocks
    /\ parsed = <<>>
    /\ prc = "build"
    /\ IdleExceptPs

AddParagraphChild ==
    /\ prc = "build"
    /\ Len(soup.children[1].children) < MaxParaChildren
    /\ \E child \in ParaPool :
          soup' = [soup EXCEPT !.children[1].children = Append(@, child)]
    /\ UNCHANGED <<display_blocks, inline_blocks, parsed, prc>>
    /\ UNCHANGED exceptPs

ParagraphNext == AddParagraphChild \/ ParseDocument

SpecParagraph == ParagraphInit /\ [][ParagraphNext]_vars

ParagraphNodes == {node \in TreeNodes(parsed) : node.type = "paragraph"}

\* the children of the document's paragraph that give an inline node: a
\* text that is not blank, formatted text, a word run that is not blank, an
\* inline placeholder whose fragment is in the table
GivesInline(name, child) ==
    IF name = "p"
    THEN \/ child.kind # "tag" /\ Strip(child.text) # <<>>
         \/ child.kind = "tag" /\ child.name = "omml-inline" /\ child # UnknownInline
         \/ child.kind = "tag" /\ child.name \in {"b", "w:r"} /\ Strip(get_text(child)) # <<>>
    ELSE /\ child.kind = "tag"
         /\ \/ child.name = "omml-inline" /\ child # UnknownInline
            \/ child.name = "w:r" /\ Strip(get_text(child)) # <<>>

InlineGiven ==
    Cardinality({i \in 1..Len(soup.children[1].children) :
                    GivesInline(soup.children[1].name, soup.children[1].children[i])})

HoldsDisplay ==
    \E i \in 1..Len(soup.children[1].children) :
        soup.children[1].children[i].name = "omml-display"

\* C22: in every extracted tree no Paragraph node has a DisplayMath child
\* and every Paragraph node has at least two children; a paragraph with a
\* single inline child is replaced by that child and a paragraph with none
\* emits nothing, for HTML paragraphs and raw Word paragraphs alike.
C22_ParagraphShape ==
    Parsed =>
        /\ \A node \in ParagraphNodes :
              /\ Len(node.children) >= 2
              /\ \A i \in 1..Len(node.children) : node.children[i].type # "display_math"
        /\ (~HoldsDisplay /\ InlineGiven = 0) => parsed = <<>>
        /\ (~HoldsDisplay /\ InlineGiven = 1) =>
              Len(parsed) = 1 /\ parsed[1].type \in {"text", "inline_math"}
        /\ (~HoldsDisplay /\ InlineGiven >= 2) =>
              Len(parsed) = 1 /\ parsed[1].type = "paragraph"
                              /\ Len(parsed[1].children) = InlineGiven

\* a raw Word paragraph of a word run and an inline placeholder gave a
\* Paragraph of two children, with a blank run dropped
C22_Witness ==
    /\ Parsed
    /\ soup.children[1].name = "w:p"
    /\ Len(soup.children[1].children) = 3
    /\ InlineGiven = 2
    /\ parsed = <<Paragraph(<<Text(<<"Hello">>), InlineMath(InlineXml)>>)>>

(***************************************************************************)
(* SpecDispatch: the walk over a document of one element, of every name    *)
(* the dispatch looks at, with and without a heading style class           *)
(***************************************************************************)
DispatchNames ==
    {"omml-display", "omml-inline", "table", "ul", "ol", "p", "h2", "w:p", "div", "span"}

MsoHeadingClass(n) ==
    <<"M", "s", "o", "H", "e", "a", "d", "i", "n", "g", Digits[n + 1]>>

DispatchClasses == {<<>>, <<MsoNormal>>, <<MsoHeadingClass(1)>>, <<MsoNormal, MsoHeadingClass(3)>>}

\* content that every handler reads differently
MixedContent ==
    << Element("tr", <<Element("td", <<NavigableString(<<"cell">>)>>)>>),
       Element("li", <<NavigableString(<<"item">>)>>),
       Element("w:t", <<NavigableString(<<"run">>)>>),
       NavigableString(<<"text">>),
       Tag("omml-inline", <<>>, <<"1">>, <<>>) >>

DispatchContents == {MixedContent, <<NavigableString(<<"Hello">>)>>}

DispatchInit ==
    /\ soup \in {Element("body", <<Tag(name, classes, id, content)>>) :
                    name \in DispatchNames, classes \in DispatchClasses,
                    id \in {<<"0">>, <<"1">>}, content \in DispatchContents}
    /\ Blocks
    /\ parsed = <<>>
    /\ prc = "build"
    /\ IdleExceptPs

SpecDispatch == DispatchInit /\ [][ParseDocument]_vars

\* the dispatch rules in the order of the claim
Handlers ==
    <<"placeholder", "table", "list", "paragraph", "heading", "word paragraph", "recursion">>

Matches(handler, el) ==
    CASE handler = "placeholder" -> el.name \in {"omml-display", "omml-inline"}
      [] handler = "table" -> el.name = "table"
      [] handler = "list" -> el.name \in {"ul", "ol"}
      [] handler = "paragraph" -> el.name = "p"
      [] handler = "heading" ->
            \/ el.name \in {HeadingNames[n] : n \in 1..Len(HeadingNames)}
            \/ \E i \in 1..Len(el.class) : el.class[i] \in HeadingClasses
      [] handler = "word paragraph" -> el.name = "w:p"
      [] handler = "recursion" -> TRUE

Applied(handler, el) ==
    CASE handler = "placeholder" ->
            IF el.name = "omml-display" THEN DisplayNode(display_blocks, el)
            ELSE InlineNode(inline_blocks, el)
      [] handler = "table" -> _handle_table(el, display_blocks, inline_blocks)
      [] handler = "list" -> _handle_list(el)
      [] handler = "paragraph" -> _handle_paragraph(el, display_blocks, inline_blocks)
      [] handler = "heading" -> <<Heading(_detect_heading(el), get_text_strip(el))>>
      [] handler = "word paragraph" ->
            _handle_word_paragraph(el, display_blocks, inline_blocks)
      [] handler = "recursion" -> _walk_elements(el, display_blocks, inline_blocks)

FirstMatch(el) ==
    Handlers[CHOOSE k \in 1..Len(Handlers) :
                /\ Matches(Handlers[k], el)
                /\ \A j \in 1..(k - 1) : ~Matches(Handlers[j], el)]

\* C23: for the element met by the walk exactly one handler is applied, and
\* when the element matches several dispatch rules the handler is the
\* first match in the fixed order: math placeholder, table, list,
\* paragraph, heading, raw Word paragraph, generic recursion into children.
C23_FirstMatchingHandler ==
    Parsed => parsed = Applied(FirstMatch(soup.children[1]), soup.children[1])

\* a table that also carries a heading style class was handled as a table,
\* and every other handler would have given a different result
C23_Witness ==
    /\ Parsed
    /\ soup.children[1].name = "table"
    /\ soup.children[1].class = <<MsoHeadingClass(1)>>
    /\ soup.children[1].children = MixedContent
    /\ Matches("heading", soup.children[1])
    /\ parsed = Applied("table", soup.children[1])
    /\ \A k \in 1..Len(Handlers) :
          Handlers[k] # "table" => Applied(Handlers[k], soup.children[1]) # parsed

(***************************************************************************)
(* SpecPasses: one pass of postprocess_latex applied twice to an           *)
(* expression built by appending pieces and wrapping in groups             *)
(***************************************************************************)
MaxBuildSteps == 3

PassPieces ==
    { <<"a", "b">>,
      <<"x">>,
      <<" ">>,
      <<"\\", "\\">>,
      <<"=">>,
      <<"\\", "l", "o", "g", "\\", " ", "_">>,
      <<"5">>,
      <<"\\", "t", "e", "x", "t", "{", "m", "}">> }

\* the opening and the closing text of a group
Wrappers ==
    { <<<<"{">>, <<"}">>>>,
      <<<<"\\", "m", "a", "t", "h", "b", "f", "{">>, <<"}">>>>,
      <<<<"\\", "b", "e", "g", "i", "n", "{", "a", "r", "r", "a", "y", "}", "{", "r", "}">>, <<"\\", "e", "n", "d", "{", "a", "r", "r", "a", "y", "}">>>>,
      <<<<"\\", "b", "e", "g", "i", "n", "{", "a", "l", "i", "g", "n", "e", "d", "}">>, <<"\\", "e", "n", "d", "{", "a", "l", "i", "g", "n", "e", "d", "}">>>> }

\* lines 10-18: the passes of the chain, in order
PassNames ==
    << "_unwrap_multiline_groups", "_unwrap_array_in_aligned",
       "_collapse_nested_aligned", "_add_alignment_markers",
       "_fix_bold_math_vars", "_fix_log_subscript", "_fix_whitespace",
       "_fix_common_pandoc_quirks", "_fix_number_unit_spacing" >>

PassesInit ==
    /\ latex = <<>>
    /\ npieces = 0
    /\ out1 = <<>>
    /\ out2 = <<>>
    /\ ppc = "build"
    /\ BridgeIdle
    /\ ConvertIdle
    /\ LaterIdle

AppendPiece ==
    /\ ppc = "build"
    /\ npieces < MaxBuildSteps
    /\ \E p \in PassPieces : latex' = latex \o p
    /\ npieces' = npieces + 1
    /\ UNCHANGED <<out1, out2, ppc>>
    /\ UNCHANGED brVars
    /\ UNCHANGED cvVars
    /\ UNCHANGED laterVars

WrapGroup ==
    /\ ppc = "build"
    /\ npieces < MaxBuildSteps
    /\ \E w \in Wrappers : latex' = w[1] \o latex \o w[2]
    /\ npieces' = npieces + 1
    /\ UNCHANGED <<out1, out2, ppc>>
    /\ UNCHANGED brVars
    /\ UNCHANGED cvVars
    /\ UNCHANGED laterVars

\* p(s) and p(p(s)) for one pass p of the chain
ApplyPassTwice ==
    /\ ppc = "build"
    /\ \E j \in 1..Len(PassNames) :
          /\ out1' = PassStep(latex, j)
          /\ out2' = PassStep(out1', j)
          /\ ppc' = PassNames[j]
    /\ UNCHANGED <<latex, npieces>>
    /\ UNCHANGED brVars
    /\ UNCHANGED cvVars
    /\ UNCHANGED laterVars

PassesNext == AppendPiece \/ WrapGroup \/ ApplyPassTwice

SpecPasses == PassesInit /\ [][PassesNext]_vars

PassApplied == \E j \in 1..Len(PassNames) : ppc = PassNames[j]

\* C24: each postprocessor pass is total and idempotent: for every pass p of
\* the chain and every input string s, p returns and p(p(s)) = p(s).
C24_EachPassIdempotent == PassApplied => out2 = out1

\* the passes for which p(p(s)) = p(s) on every expression built
IdempotentPasses ==
    { "_unwrap_multiline_groups", "_collapse_nested_aligned", "_add_alignment_markers",
      "_fix_log_subscript", "_fix_whitespace", "_fix_number_unit_spacing" }

C24_OtherPassesIdempotent == ppc \in IdempotentPasses => out2 = out1

(***************************************************************************)
(* ocr_service.py: _load_got and _load_texify, run by the worker threads   *)
(* that main.py starts for streaming OCR requests.  The module globals     *)
(* are shared by the threads and no lock guards them, so a step of one     *)
(* thread is one read or one write of a global, or one call that creates   *)
(* an object.                                                              *)
(***************************************************************************)
MaxRequests == 2

\* main.py line 168: one thread per streaming request
Threads == {"w1", "w2"}

LocalBackends == {"got", "texify"}

ObjectKinds == {"got_model", "got_tokenizer", "texify_model", "texify_processor"}

NoReturn == [kind |-> "none", model |-> 0, other |-> 0]
ReturnedPair(m, o) == [kind |-> "pair", model |-> m, other |-> o]
RaisedRuntimeError == [kind |-> "raised", model |-> 0, other |-> 0]

OcrInit ==
    /\ _got_model = 0
    /\ _got_tokenizer = 0
    /\ _texify_model = 0
    /\ _texify_processor = 0
    /\ created = [k \in ObjectKinds |-> 0]
    /\ worker = [t \in Threads |->
                    [backend |-> "", at |-> "idle", model |-> 0, other |-> 0,
                     returned |-> NoReturn, calls |-> 0]]
    /\ IdleExceptOc

At(t, backend, at) == worker[t].backend = backend /\ worker[t].at = at

Globals == <<_got_model, _got_tokenizer, _texify_model, _texify_processor>>

\* main.py lines 156-168, ocr_service.py lines 206, 310: a request reaches
\* the loader of its backend
StartRequest(t) ==
    /\ worker[t].at = "idle"
    /\ worker[t].calls < MaxRequests
    /\ \E b \in LocalBackends :
          worker' = [worker EXCEPT ![t] =
                        [backend |-> b, at |-> "check", model |-> 0, other |-> 0,
                         returned |-> NoReturn, calls |-> @.calls + 1]]
    /\ UNCHANGED <<Globals, created>>
    /\ UNCHANGED exceptOc

\* line 160: if _got_model is not None
GotCheck(t) ==
    /\ At(t, "got", "check")
    /\ worker' = [worker EXCEPT ![t].at =
                    IF _got_model # 0 THEN "read_model" ELSE "load_tokenizer"]
    /\ UNCHANGED <<Globals, created>>
    /\ UNCHANGED exceptOc

\* line 183: tokenizer = AutoTokenizer.from_pretrained(...)
GotLoadTokenizer(t) ==
    /\ At(t, "got", "load_tokenizer")
    /\ created' = [created EXCEPT !["got_tokenizer"] = @ + 1]
    /\ worker' = [worker EXCEPT ![t].other = created'["got_tokenizer"],
                                ![t].at = "load_model"]
    /\ UNCHANGED Globals
    /\ UNCHANGED exceptOc

\* lines 184-191: model = AutoModel.from_pretrained(...).eval()
GotLoadModel(t) ==
    /\ At(t, "got", "load_model")
    /\ created' = [created EXCEPT !["got_model"] = @ + 1]
    /\ worker' = [worker EXCEPT ![t].model = created'["got_model"],
                                ![t].at = "store_model"]
    /\ UNCHANGED Globals
    /\ UNCHANGED exceptOc

\* line 193: _got_model = model
GotStoreModel(t) ==
    /\ At(t, "got", "store_model")
    /\ _got_model' = worker[t].model
    /\ worker' = [worker EXCEPT ![t].at = "store_tokenizer"]
    /\ UNCHANGED <<_got_tokenizer, _texify_model, _texify_processor, created>>
    /\ UNCHANGED exceptOc

\* lines 194-195: _got_tokenizer = tokenizer; return model, tokenizer
GotStoreTokenizer(t) ==
    /\ At(t, "got", "store_tokenizer")
    /\ _got_tokenizer' = worker[t].other
    /\ worker' = [worker EXCEPT ![t].at = "idle",
                                ![t].returned = ReturnedPair(worker[t].model, worker[t].other)]
    /\ UNCHANGED <<_got_model, _texify_model, _texify_processor, created>>
    /\ UNCHANGED exceptOc

\* line 280: if _texify_model is not None
TexifyCheck(t) ==
    /\ At(t, "texify", "check")
    /\ worker' = [worker EXCEPT ![t].at =
                    IF _texify_model # 0 THEN "read_model" ELSE "load_model"]
    /\ UNCHANGED <<Globals, created>>
    /\ UNCHANGED exceptOc

\* line 290: _texify_model = load_model()
TexifyLoadModel(t) ==
    /\ At(t, "texify", "load_model")
    /\ created' = [created EXCEPT !["texify_model"] = @ + 1]
    /\ _texify_model' = created'["texify_model"]
    /\ worker' = [worker EXCEPT ![t].at = "load_processor"]
    /\ UNCHANGED <<_got_model, _got_tokenizer, _texify_processor>>
    /\ UNCHANGED exceptOc

\* line 291: _texify_processor = load_processor()
TexifyLoadProcessor(t) ==
    /\ At(t, "texify", "load_processor")
    /\ created' = [created EXCEPT !["texify_processor"] = @ + 1]
    /\ _texify_processor' = created'["texify_processor"]
    /\ worker' = [worker EXCEPT ![t].at = "read_model"]
    /\ UNCHANGED <<_got_model, _got_tokenizer, _texify_model>>
    /\ UNCHANGED exceptOc

\* lines 292-297: load_model() or load_processor() raises AttributeError or
\* TypeError, which leaves as RuntimeError
TexifyLoadFails(t) ==
    /\ At(t, "texify", "load_model") \/ At(t, "texify", "load_processor")
    /\ worker' = [worker EXCEPT ![t].at = "idle", ![t].returned = RaisedRuntimeError]
    /\ UNCHANGED <<Globals, created>>
    /\ UNCHANGED exceptOc

\* lines 161, 281, 298: return <model global>, <other global>: the first read
ReadModel(t) ==
    /\ worker[t].at = "read_model"
    /\ worker' = [worker EXCEPT ![t].at = "read_other",
                    ![t].model = IF worker[t].backend = "got" THEN _got_model
                                 ELSE _texify_model]
    /\ UNCHANGED <<Globals, created>>
    /\ UNCHANGED exceptOc

\* the second read, and the return
ReadOther(t) ==
    /\ worker[t].at = "read_other"
    /\ worker' = [worker EXCEPT ![t].at = "idle",
                    ![t].returned =
                        ReturnedPair(worker[t].model,
                                     IF worker[t].backend = "got" THEN _got_tokenizer
                                     ELSE _texify_processor)]
    /\ UNCHANGED <<Globals, created>>
    /\ UNCHANGED exceptOc

OcrNext ==
    \E t \in Threads :
          \/ StartRequest(t)
          \/ GotCheck(t)
          \/ GotLoadTokenizer(t)
          \/ GotLoadModel(t)
          \/ GotStoreModel(t)
          \/ GotStoreTokenizer(t)
          \/ TexifyCheck(t)
          \/ TexifyLoadModel(t)
          \/ TexifyLoadProcessor(t)
          \/ TexifyLoadFails(t)
          \/ ReadModel(t)
          \/ ReadOther(t)

SpecOcr == OcrInit /\ [][OcrNext]_vars

OcrRunning == DOMAIN worker = Threads

\* C25: each local OCR model handle (GOT-OCR model with tokenizer, texify
\* model with processor) is created at most once per process, also when
\* several OCR requests running in separate threads ask for it
\* concurrently, and every caller receives the fully initialised pair.
C25_CreatedOnceAndWhole ==
    OcrRunning =>
        /\ \A k \in ObjectKinds : created[k] <= 1
        /\ \A t \in Threads :
              worker[t].returned.kind = "pair" =>
                  worker[t].returned.model # 0 /\ worker[t].returned.other # 0

\* once created, a handle is never reset to None
C25_NeverReset ==
    [][/\ _got_model # 0 => _got_model' # 0
       /\ _got_tokenizer # 0 => _got_tokenizer' # 0
       /\ _texify_model # 0 => _texify_model' # 0
       /\ _texify_processor # 0 => _texify_processor' # 0]_vars

(***************************************************************************)
(* SpecFragments: the walk over a document that holds the placeholder of   *)
(* every recorded fragment once, each at one of the places a fragment can  *)
(* sit in                                                                  *)
(***************************************************************************)
InlineXml2 ==
    <<"<", "m", ":", "o", "M", "a", "t", "h", ">", "z",
      "<", "/", "m", ":", "o", "M", "a", "t", "h", ">">>

\* lines 113-127: the two tables after one display fragment and two inline
\* fragments were recorded, with ids from the shared counter
RecordedDisplay == [id \in {<<"0">>} |-> DisplayXml]
RecordedInline == [id \in {<<"1">>, <<"2">>} |-> IF id = <<"1">> THEN InlineXml ELSE InlineXml2]

\* the placeholders that stand for them in the cleaned markup, in id order
Placeholders ==
    << Tag("omml-display", <<>>, <<"0">>, <<>>),
       Tag("omml-inline", <<>>, <<"1">>, <<>>),
       Tag("omml-inline", <<>>, <<"2">>, <<>>) >>

Places == <<"top", "paragraph", "item", "heading", "cell">>

\* the placeholders put at one place
PlacedAt(placing, place) ==
    LET at == {k \in 1..Len(Placeholders) : placing[k] = place}
    IN  [j \in 1..Cardinality(at) |-> Placeholders[Sorted(at)[j]]]

\* the element that holds the placeholders of one place, after some text
Holder(place, held) ==
    CASE place = "top" -> held
      [] place = "paragraph" -> <<Element("p", <<NavigableString(<<"Hello">>)>> \o held)>>
      [] place = "item" ->
            <<Element("ul", <<Element("li", <<NavigableString(<<"item">>)>> \o held)>>)>>
      [] place = "heading" -> <<Element("h1", <<NavigableString(<<"Title">>)>> \o held)>>
      [] place = "cell" -> <<CellOf(<<NavigableString(<<"cell">>)>> \o held)>>

DocumentOf(placing) ==
    Join([k \in 1..Len(Places) |->
             IF PlacedAt(placing, Places[k]) = <<>> THEN <<>>
             ELSE Holder(Places[k], PlacedAt(placing, Places[k]))], <<>>)

Placings == [1..Len(Placeholders) -> {Places[k] : k \in 1..Len(Places)}]

FragmentsInit ==
    /\ soup \in {Element("body", DocumentOf(placing)) : placing \in Placings}
    /\ display_blocks = RecordedDisplay
    /\ inline_blocks = RecordedInline
    /\ parsed = <<>>
    /\ prc = "build"
    /\ IdleExceptPs

SpecFragments == FragmentsInit /\ [][ParseDocument]_vars

\* the nodes of a tree, one entry per node
RECURSIVE Flattened(_)
Flattened(list) ==
    IF list = <<>> THEN <<>>
    ELSE <<Head(list)>>
             \o Flattened(Head(list).children)
             \o Flattened(Join(Join(Head(list).table_rows, <<>>), <<>>))
             \o Flattened(Tail(list))

MathNodesFor(type, xml) ==
    LET flat == Flattened(parsed)
    IN  Cardinality({i \in 1..Len(flat) : flat[i].type = type /\ flat[i].omml_xml = xml})

\* C26: every math fragment recorded in the display or inline table
\* becomes exactly one math node of the extracted tree, DisplayMath for a
\* display-table entry and InlineMath for an inline-table entry, wherever
\* its placeholder sits.
C26_EveryFragmentOneNode ==
    Parsed =>
        /\ \A id \in DOMAIN display_blocks :
              MathNodesFor("display_math", display_blocks[id]) = 1
        /\ \A id \in DOMAIN inline_blocks :
              MathNodesFor("inline_math", inline_blocks[id]) = 1

\* the same for the documents whose placeholders all sit at top level
C26_TopLevelFragmentsKept ==
    (Parsed /\ soup.children = Placeholders) => C26_EveryFragmentOneNode

(***************************************************************************)
(* SpecTempFile: one call of omml_to_latex, with the temporary package     *)
(* file it writes for the converter                                        *)
(***************************************************************************)
\* lines 157-159: NamedTemporaryFile(suffix='.docx', delete=False) makes a
\* file that is not in the directory yet
NewTempFile(files) == Cardinality(files) + 1

\* lines 155-184: the files on disk when the call returns or raises.
\* subprocess.run (161-167) raises when the binary is missing, when the
\* timeout expires and on any other launch error; the handlers of lines
\* 178-184 do not remove the file, and line 169 runs only when
\* subprocess.run returned.
FilesAfterCall(files, r) ==
    LET tmp_path == NewTempFile(files)
        written == files \cup {tmp_path}
    IN  IF r.kind = "exited" THEN written \ {tmp_path} ELSE written

TempInit ==
    /\ omml_xml = <<>>
    /\ run = NoRun
    /\ ret = Returned(<<>>)
    /\ bpc = "build"
    /\ tmp_files = {}
    /\ PostIdle
    /\ ConvertIdle
    /\ ParseIdle /\ IsolateIdle /\ CfHtmlIdle /\ ClipboardIdle
    /\ SvcIdleExceptTm

AddFragmentChar ==
    /\ bpc = "build"
    /\ Len(omml_xml) < MaxFragment
    /\ \E c \in FragmentChars : omml_xml' = Append(omml_xml, c)
    /\ UNCHANGED <<run, ret, bpc, tmp_files>>
    /\ UNCHANGED <<ppVars, cvVars, psVars, isVars, cfVars, cbVars, svcExceptTm>>

CallWithTempFile ==
    /\ bpc = "build"
    /\ \E r \in BridgeRuns :
          /\ run' = r
          /\ ret' = omml_to_latex(omml_xml, r)
          /\ tmp_files' = FilesAfterCall(tmp_files, r)
    /\ bpc' = "called"
    /\ UNCHANGED omml_xml
    /\ UNCHANGED <<ppVars, cvVars, psVars, isVars, cfVars, cbVars, svcExceptTm>>

TempNext == AddFragmentChar \/ CallWithTempFile

SpecTempFile == TempInit /\ [][TempNext]_vars

\* C27: omml_to_latex leaves no temporary package file behind: on every
\* exit path (converter succeeds, converter exits non-zero, converter times
\* out, converter binary missing) the temporary file it created has been
\* removed by the time the call returns or raises.
C27_NoTempFileLeft == bpc = "called" => tmp_files = {}

\* the same for the exit paths on which the converter ran to its end
C27_NoTempFileLeftAfterExit ==
    (bpc = "called" /\ run.kind = "exited") => tmp_files = {}

(***************************************************************************)
(* SpecEscape: _escape_latex applied to a drawn text                       *)
(***************************************************************************)
MaxText == 3

\* the ten reserved characters of lines 128-139, a letter and a space
TextChars == {"\\", "&", "%", "$", "#", "_", "{", "}", "~", "^", "a", " "}

EscapeInit ==
    /\ plain = <<>>
    /\ escaped = <<>>
    /\ epc = "build"
    /\ IdleExceptEs

AddTextChar ==
    /\ epc = "build"
    /\ Len(plain) < MaxText
    /\ \E c \in TextChars : plain' = Append(plain, c)
    /\ UNCHANGED <<escaped, epc>>
    /\ UNCHANGED exceptEs

EscapeLatex ==
    /\ epc = "build"
    /\ escaped' = _escape_latex(plain)
    /\ epc' = "escaped"
    /\ UNCHANGED plain
    /\ UNCHANGED exceptEs

EscapeNext == AddTextChar \/ EscapeLatex

SpecEscape == EscapeInit /\ [][EscapeNext]_vars

\* the escape of one character, as the claim gives it
EscapeOf(c) ==
    CASE c = "\\" -> <<"\\", "t", "e", "x", "t", "b", "a", "c", "k", "s", "l", "a", "s", "h", "{", "}">>
      [] c \in {"&", "%", "$", "#", "_", "{", "}"} -> <<"\\", c>>
      [] c = "~" -> <<"\\", "t", "e", "x", "t", "a", "s", "c", "i", "i", "t", "i", "l", "d", "e", "{", "}">>
      [] c = "^" -> <<"\\", "t", "e", "x", "t", "a", "s", "c", "i", "i", "c", "i", "r", "c", "u", "m", "{", "}">>
      [] OTHER -> <<c>>

EachEscapedOnce(s) == Join([i \in 1..Len(s) |-> EscapeOf(s[i])], <<>>)

\* C28: _escape_latex escapes each reserved character of its input exactly
\* once: its output is the character-by-character concatenation of the
\* per-character escapes, so that characters produced by one replacement
\* are never escaped again by a later replacement.
C28_EscapedOnce == epc = "escaped" => escaped = EachEscapedOnce(plain)

\* the same for the texts that hold no backslash
C28_EscapedOnceWithoutBackslash ==
    (epc = "escaped" /\ ~Contains(plain, "\\")) => escaped = EachEscapedOnce(plain)

(***************************************************************************)
(* SpecStream: one streaming OCR request of main.py: the worker thread     *)
(* that runs the OCR call and puts (kind, data) items on the queue, and    *)
(* the event generator that takes them off and yields events               *)
(***************************************************************************)
MaxLogs == 5

Item(kind, n) == [kind |-> kind, n |-> n]

StreamInit ==
    /\ queue = <<>>
    /\ wpc = "start"
    /\ produced = 0
    /\ events = <<>>
    /\ gpc = "get"
    /\ IdleExceptSe

\* lines 153-154: log_cb puts the next log entry
log_cb(q, n) == Append(q, Item("log", n + 1))

\* line 158: the worker logs the start of the request
WorkerStarts ==
    /\ wpc = "start"
    /\ queue' = log_cb(queue, produced)
    /\ produced' = produced + 1
    /\ wpc' = "ocr"
    /\ UNCHANGED <<events, gpc>>
    /\ UNCHANGED exceptSe

\* line 160: run_ocr calls on_log
OcrLogs ==
    /\ wpc = "ocr"
    /\ produced < MaxLogs
    /\ queue' = log_cb(queue, produced)
    /\ produced' = produced + 1
    /\ UNCHANGED <<wpc, events, gpc>>
    /\ UNCHANGED exceptSe

\* lines 160-161: run_ocr returns and the result is put
OcrReturns ==
    /\ wpc = "ocr"
    /\ queue' = Append(queue, Item("result", 0))
    /\ wpc' = "finally"
    /\ UNCHANGED <<produced, events, gpc>>
    /\ UNCHANGED exceptSe

\* lines 162-164 with the exception swallowed
OcrRaises_swallowed ==
    /\ wpc = "ocr"
    /\ queue' = queue
    /\ wpc' = "finally"
    /\ UNCHANGED <<produced, events, gpc>>
    /\ UNCHANGED exceptSe

\* lines 162-164: run_ocr raises and the error is put
OcrRaises ==
    /\ wpc = "ocr"
    /\ queue' = Append(queue, Item("error", 0))
    /\ wpc' = "finally"
    /\ UNCHANGED <<produced, events, gpc>>
    /\ UNCHANGED exceptSe

\* lines 165-166: finally, the (None, None) item
PutsSentinel ==
    /\ wpc = "finally"
    /\ queue' = Append(queue, Item("None", 0))
    /\ wpc' = "done"
    /\ UNCHANGED <<produced, events, gpc>>
    /\ UNCHANGED exceptSe

\* lines 171-175, 181-182: queue.get times out on an empty queue and the
\* generator asks again
GetTimesOut ==
    /\ gpc = "get"
    /\ queue = <<>>
    /\ UNCHANGED seVars
    /\ UNCHANGED exceptSe

\* lines 180-192: the generator takes one item and acts on its kind
GetsItem ==
    /\ gpc = "get"
    /\ queue # <<>>
    /\ queue' = Tail(queue)
    /\ events' = IF Head(queue).kind = "None" THEN events ELSE Append(events, Head(queue))
    /\ gpc' = IF Head(queue).kind = "log" THEN "get" ELSE "done"
    /\ UNCHANGED <<wpc, produced>>
    /\ UNCHANGED exceptSe

Worker == WorkerStarts \/ OcrLogs \/ OcrReturns \/ OcrRaises \/ PutsSentinel

StreamNext == Worker \/ GetTimesOut \/ GetsItem

SpecStream == StreamInit /\ [][StreamNext]_vars

\* The OCR call returns or raises, so the worker thread runs to its end
\* without logging for ever, and the event loop keeps driving the
\* generator.
SpecStreamFair ==
    /\ SpecStream
    /\ WF_vars(WorkerStarts)
    /\ WF_vars(OcrReturns \/ OcrRaises)
    /\ WF_vars(PutsSentinel)
    /\ WF_vars(GetsItem)

Terminal == {"result", "error"}

TerminalEvents == {i \in 1..Len(events) : events[i].kind \in Terminal}

\* the events before position i are the worker's log entries 1, 2, ...
LogsInOrderBefore(i) == \A j \in 1..(i - 1) : events[j] = Item("log", j)

StreamEnded == gpc = "done"

\* C29: in streaming OCR mode, for every interleaving of the worker thread
\* and the event generator and whether the OCR call returns or raises, the
\* event stream terminates and carries exactly one terminal event (result
\* or error), with every log event that is delivered preceding the
\* terminal event in the order the worker produced it.
C29_OneTerminalEventLast ==
    /\ <>StreamEnded
    /\ [](Cardinality(TerminalEvents) <= 1)
    /\ [](StreamEnded => /\ TerminalEvents = {Len(events)}
                         /\ LogsInOrderBefore(Len(events)))
    /\ [](LogsInOrderBefore(Len(events) + 1) \/ TerminalEvents = {Len(events)})

\* the OCR call raised after its second log entry: the stream ended with
\* the two log events and then the error event, the sentinel still queued
C29_Witness ==
    /\ StreamEnded
    /\ events = <<Item("log", 1), Item("log", 2), Item("error", 0)>>
    /\ wpc = "done"
    /\ queue = <<Item("None", 0)>>

(***************************************************************************)
(* SpecHistory: the history table of history.py under add_entry,           *)
(* delete_entry and clear_tab                                              *)
(***************************************************************************)
MAX_PER_TAB == 50

MaxAdds == 52
MaxOtherAdds == 1
MaxRemovals == 1

MainTab == "word"
Tabs == {MainTab, "ocr"}

HistoryInit ==
    /\ history = {}
    /\ added = <<>>
    /\ removed = {}
    /\ removals = 0
    /\ hpc = "init"
    /\ IdleExceptHs

\* SELECT id FROM history WHERE tab = ? ORDER BY id DESC LIMIT ?
NewestOf(table, tabs, tab, limit) ==
    LET ofTab == {id \in table : tabs[id] = tab}
    IN  {id \in ofTab : Cardinality({other \in ofTab : other > id}) < limit}

\* lines 58-63 without the outer condition on the tab
Trimmed_any_tab(table, tabs, tab) ==
    LET newest == NewestOf(table, tabs, tab, MAX_PER_TAB)
    IN  {id \in table : id \in newest}

\* lines 58-63: DELETE FROM history WHERE tab = ? AND id NOT IN (...)
Trimmed(table, tabs, tab) ==
    LET newest == NewestOf(table, tabs, tab, MAX_PER_TAB)
    IN  {id \in table : ~(tabs[id] = tab /\ id \notin newest)}

\* the tab's count of entries added so far
AddedTo(tab) == Cardinality({id \in 1..Len(added) : added[id] = tab})

add_entry(tab) ==
    /\ Len(added) < MaxAdds
    /\ tab # MainTab => AddedTo(tab) < MaxOtherAdds
    /\ added' = Append(added, tab)
    /\ history' = Trimmed(history \cup {Len(added) + 1}, added', tab)
    /\ hpc' = "add"
    /\ UNCHANGED <<removed, removals>>
    /\ UNCHANGED exceptHs

delete_entry(entry_id) ==
    /\ removals < MaxRemovals
    /\ history' = history \ {entry_id}
    /\ removed' = removed \cup (history \cap {entry_id})
    /\ removals' = removals + 1
    /\ hpc' = "delete"
    /\ UNCHANGED added
    /\ UNCHANGED exceptHs

clear_tab(tab) ==
    /\ removals < MaxRemovals
    /\ history' = {id \in history : added[id] # tab}
    /\ removed' = removed \cup {id \in history : added[id] = tab}
    /\ removals' = removals + 1
    /\ hpc' = "clear"
    /\ UNCHANGED added
    /\ UNCHANGED exceptHs

AddsEntry == \E tab \in Tabs : add_entry(tab)

DeletesEntry == \E entry_id \in 1..(Len(added) + 1) : delete_entry(entry_id)

ClearsTab == \E tab \in Tabs : clear_tab(tab)

HistoryNext == AddsEntry \/ DeletesEntry \/ ClearsTab

SpecHistory == HistoryInit /\ [][HistoryNext]_vars

Held(tab) == {id \in history : added[id] = tab}

\* the entries of the tab that no delete_entry or clear_tab call removed
Surviving(tab) == {id \in 1..Len(added) : added[id] = tab /\ id \notin removed}

MostRecentSurviving(tab) ==
    /\ Held(tab) \subseteq Surviving(tab)
    /\ \A held \in Held(tab) : \A other \in Surviving(tab) \ Held(tab) : other < held

OtherTabsKept ==
    Len(added') = Len(added) + 1 =>
        \A tab \in Tabs \ {added'[Len(added')]} :
            {id \in history' : added'[id] = tab} = Held(tab)

====
